---------------------------- MODULE Spec2Model ----------------------------
(***************************************************************************)
(* A state-machine model of the SrikurGBC Game Boy emulator core.          *)
(*                                                                         *)
(* The repository holds two generations of the core side by side:          *)
(*   - the monolithic CPU of src/src/system/cpu.rs with its own bus,       *)
(*     timer and scanline counter (src/src/system/cpu/*.rs); the host      *)
(*     loop of src/src/main.rs drives this one;                            *)
(*   - the stand-alone PPU, timer, bus, joypad and cartridge components    *)
(*     of src/src/system/{gpu,timer,bus,joypad,cartridge,...}.rs.          *)
(* Each is modelled from its own source.  Definitions that belong to the   *)
(* monolithic CPU carry its names (pc, sp, ime, is_halted, ...); the       *)
(* stand-alone PPU is the record variable gpu.                             *)
(***************************************************************************)
EXTENDS Integers, Sequences, FiniteSets, TLC

VARIABLES
    \* ---- monolithic CPU (src/src/system/cpu.rs) ----
    pc,          \* CPU.pc
    sp,          \* CPU.sp
    ime,         \* CPU.ime
    is_halted,   \* CPU.is_halted
    reg_a,       \* CPU.regs.a
    bus,         \* CPU.bus: interrupt registers, high RAM window, timer, scanline state
    phase,       \* position inside one iteration of update_emulator's loop
    cycles,      \* cycle count returned by the last execute_instruction
    steps,       \* completed iterations of update_emulator's loop
    fetched,     \* kind of the instruction executed in this iteration
    \* ---- stand-alone PPU (src/src/system/gpu.rs) ----
    gpu,         \* GPU fields read by update_graphics / write_registers
    intref,      \* the shared Interrupt cell (interrupt_flag)
    obs,         \* observations of the last PPU operation and of the current frame
    \* ---- instruction timing (decode_instruction's cycle column) ----
    probe,       \* one decoded opcode with the machine state its timing reads
    \* ---- stand-alone timer, cartridge and bus (timer.rs, cartridge.rs, bus.rs) ----
    timer,       \* Timer fields
    cart,        \* Cartridge fields: MBC registers and external RAM
    mem,         \* the MemoryBus's own state: work RAM bank, high RAM, bus registers
    \* ---- register file and instruction semantics (cpu.rs) ----
    regs         \* CPU.regs with the operands and result of one instruction

vars == <<pc, sp, ime, is_halted, reg_a, bus, phase, cycles, steps, fetched,
          gpu, intref, obs, probe, timer, cart, mem, regs>>

-----------------------------------------------------------------------------
(* Bit operations on naturals, as the u8/u16 operators of the source.      *)

RECURSIVE BitAnd(_, _)
BitAnd(a, b) ==
    IF a = 0 \/ b = 0 THEN 0
    ELSE (a % 2) * (b % 2) + 2 * BitAnd(a \div 2, b \div 2)

RECURSIVE BitOr(_, _)
BitOr(a, b) ==
    IF a = 0 THEN b
    ELSE IF b = 0 THEN a
    ELSE (IF (a % 2) + (b % 2) > 0 THEN 1 ELSE 0) + 2 * BitOr(a \div 2, b \div 2)

Pow2(n) == 2 ^ n

RECURSIVE TrailingZeros(_)
TrailingZeros(v) == IF v % 2 = 1 THEN 0 ELSE 1 + TrailingZeros(v \div 2)

-----------------------------------------------------------------------------
(* Bounds of the model.                                                    *)

\* iterations of update_emulator's loop explored from the post-boot state
MaxSteps == 5

\* framebuffer rows whose contents are tracked (rows 0 .. TrackedRows-1)
TrackedRows == 1


-----------------------------------------------------------------------------
(* The monolithic CPU: bus, timer and scanline counter.                    *)

\* the part of high RAM (0xFF80..0xFFFE) the stack of the modelled runs uses
StackAddrs == 65520 .. 65534

\* the part of work RAM (0xC000..0xDFFF) a stack placed at its top uses
WramAddrs == 57328 .. 57343

\* MemoryBus::read_byte, for high RAM and the two interrupt registers
CPU_read_byte(b, address) ==
    IF address \in WramAddrs THEN b.wram[address]
    ELSE IF address \in StackAddrs THEN b.zram[address]
    ELSE IF address = 65535 THEN b.interrupt_enable
    ELSE IF address = 65295 THEN b.interrupt_flag
    ELSE 0

\* MemoryBus::read_word: little endian, low byte first
CPU_read_word(b, address) ==
    CPU_read_byte(b, address) + 256 * CPU_read_byte(b, (address + 1) % 65536)

\* MemoryBus::write_byte, for the registers and the RAM the modelled programs touch
CPU_write_byte(b, address, value) ==
    IF address = 65295 THEN [b EXCEPT !.interrupt_flag = value]
    ELSE IF address = 65535 THEN [b EXCEPT !.interrupt_enable = value]
    ELSE IF address = 65287 THEN
        [b EXCEPT !.timer.clock_enabled = (BitAnd(value, 4) # 0),
                  !.timer.input_clock_speed =
                      CASE BitAnd(value, 3) = 0 -> 1024
                        [] BitAnd(value, 3) = 1 -> 16
                        [] BitAnd(value, 3) = 2 -> 64
                        [] OTHER -> 256]
    ELSE IF address = 65345 THEN [b EXCEPT !.gpu.stat = value]
    ELSE IF address = 65349 THEN [b EXCEPT !.gpu.lyc = value]
    ELSE IF address \in StackAddrs THEN [b EXCEPT !.zram[address] = value]
    ELSE IF address \in WramAddrs THEN [b EXCEPT !.wram[address] = value]
    ELSE b

\* MemoryBus::write_word: both bytes go to the same address
CPU_write_word(b, address, word) ==
    LET lower == word \div 256
        higher == word % 256
    IN CPU_write_byte(CPU_write_byte(b, address, lower), address, higher)

\* CPU::set_interrupt
CPU_set_interrupt(b, mask) ==
    [b EXCEPT !.interrupt_flag = BitOr(b.interrupt_flag, mask)]

\* CPU::update_timers
CPU_update_timers(b, c) ==
    LET t0 == b.timer
        dc == t0.divider_counter + c
        t1 == IF dc >= 255
              THEN [t0 EXCEPT !.divider_counter = 0,
                              !.divider_register = t0.divider_register + 1]
              ELSE [t0 EXCEPT !.divider_counter = dc]
        cc == t1.clock_counter + c
    IN IF ~t1.clock_enabled THEN [b EXCEPT !.timer = t1]
       ELSE IF cc >= t1.input_clock_speed
       THEN IF t1.timer_counter_tima = 255
            THEN CPU_set_interrupt(
                     [b EXCEPT !.timer = [t1 EXCEPT !.clock_counter = 0,
                                                    !.timer_counter_tima = t1.timer_modulo_tma]],
                     4)
            ELSE [b EXCEPT !.timer = [t1 EXCEPT !.clock_counter = 0,
                                                !.timer_counter_tima = t1.timer_counter_tima + 1]]
       ELSE [b EXCEPT !.timer = [t1 EXCEPT !.clock_counter = cc]]

\* CPU::set_status
CPU_set_status(b) ==
    LET g == b.gpu IN
    IF ~g.lcd_enabled
    THEN [b EXCEPT !.gpu.scanline_counter = 456,
                   !.gpu.current_line = 0,
                   !.gpu.stat = BitOr(BitAnd(g.stat, 252), 1)]
    ELSE
    LET current_mode == BitAnd(g.stat, 3)
        mode == IF g.current_line >= 144 THEN 1
                ELSE IF g.scanline_counter >= 376 THEN 2
                ELSE IF g.scanline_counter >= 204 THEN 3
                ELSE 0
        stat1 == IF mode = 1 THEN BitAnd(BitOr(g.stat, 1), 253)
                 ELSE IF mode = 2 THEN BitAnd(BitOr(g.stat, 2), 254)
                 ELSE IF mode = 3 THEN BitOr(g.stat, 3)
                 ELSE BitAnd(g.stat, 252)
        interrupt_requested ==
                 IF mode = 1 THEN BitAnd(stat1, 16) # 0
                 ELSE IF mode = 2 THEN BitAnd(stat1, 32) # 0
                 ELSE IF mode = 3 THEN FALSE
                 ELSE BitAnd(stat1, 3) # 0
        b1 == IF interrupt_requested /\ mode # current_mode
              THEN CPU_set_interrupt(b, 2) ELSE b
    IN IF g.lyc = g.current_line
       THEN LET stat2 == BitOr(stat1, 4)
                b2 == [b1 EXCEPT !.gpu.stat = stat2]
            IN IF BitAnd(stat2, 32) # 0 THEN CPU_set_interrupt(b2, 2) ELSE b2
       ELSE [b1 EXCEPT !.gpu.stat = BitAnd(stat1, 251)]

\* CPU::update_graphics
CPU_update_graphics(b, c) ==
    LET b1 == CPU_set_status(b) IN
    IF ~b1.gpu.lcd_enabled THEN b1
    ELSE
    LET counter == b1.gpu.scanline_counter - c IN
    IF counter > 0 THEN [b1 EXCEPT !.gpu.scanline_counter = counter]
    ELSE
    LET line == b1.gpu.current_line + 1
        b2 == [b1 EXCEPT !.gpu.scanline_counter = 456, !.gpu.current_line = line]
    IN IF line = 144 THEN CPU_set_interrupt(b2, 1)
       ELSE IF line <= 143 THEN b2
       ELSE [b2 EXCEPT !.gpu.current_line = 0]


\* CPU::rst40 .. CPU::rst60: enter the handler at `vector`
CPU_rst(c, vector) ==
    LET new_sp == (c.sp - 2) % 65536 IN
    [c EXCEPT !.ime = FALSE,
              !.sp = new_sp,
              !.bus = CPU_write_word(c.bus, new_sp, (c.pc + 1) % 65536),
              !.pc = vector]

\* CPU::process_interrupts, on the record c = [pc, sp, ime, bus]
CPU_process_interrupts(c) ==
    IF c.ime /\ c.bus.interrupt_enable # 0 /\ c.bus.interrupt_flag # 0
    THEN LET fired == BitAnd(c.bus.interrupt_enable, c.bus.interrupt_flag)
             ack(mask) == [c EXCEPT !.bus.interrupt_flag = BitAnd(c.bus.interrupt_flag, mask)]
         IN IF BitAnd(fired, 1) # 0 THEN CPU_rst(ack(254), 64)
            ELSE IF BitAnd(fired, 2) # 0 THEN CPU_rst(ack(253), 72)
            ELSE IF BitAnd(fired, 4) # 0 THEN CPU_rst(ack(251), 80)
            ELSE IF BitAnd(fired, 8) # 0 THEN CPU_rst(ack(247), 88)
            ELSE IF BitAnd(fired, 15) # 0 THEN CPU_rst(ack(239), 96)
            ELSE [c EXCEPT !.ime = TRUE]
    ELSE c

-----------------------------------------------------------------------------
(* One iteration of CPU::update_emulator's loop, call by call:             *)
(*   execute_instruction; update_timers; update_graphics;                  *)
(*   process_interrupts.                                                   *)

\* immediate operands of LD A,d8 in the modelled programs
ImmBytes == {4, 16, 31}

\* address operands of LD (a16),A in the modelled programs: IE, IF, TAC
WriteAddrs == {65535, 65295, 65287}

\* scanline positions (current_line, scanline_counter) at which the boot
\* sequence may hand over to the cartridge program
BootPositions == {<<0, 456>>, <<143, 24>>}

\* CPU::new, run_bootrom and CPU::initialize_system: the machine as the
\* cartridge program is entered at 0x0100, the scanline counter at pos
InitCPUAt(pos) ==
    /\ pc = 256
    /\ sp = 65534
    /\ ime = FALSE
    /\ is_halted = FALSE
    /\ reg_a = 1
    /\ bus = [interrupt_enable |-> 0,
              interrupt_flag |-> 0,
              zram |-> [a \in StackAddrs |-> 0],
              wram |-> [a \in WramAddrs |-> 0],
              timer |-> [timer_counter_tima |-> 0, clock_counter |-> 0,
                         divider_register |-> 0, divider_counter |-> 0,
                         timer_modulo_tma |-> 0, input_clock_speed |-> 1024,
                         clock_enabled |-> FALSE],
              gpu |-> [lcd_enabled |-> TRUE, scanline_counter |-> pos[2],
                       current_line |-> pos[1], stat |-> 0, lyc |-> 0]]
    /\ phase = "execute"
    /\ cycles = 0
    /\ steps = 0
    /\ fetched = "none"

\* the frame of every execute_instruction step: decode_instruction returns
\* (next, c); execute_instruction stores next in pc and returns c
Executed(kind, next, c) ==
    /\ phase = "execute"
    /\ steps < MaxSteps
    /\ pc' = next
    /\ cycles' = c
    /\ fetched' = kind
    /\ phase' = "timers"
    /\ steps' = steps
    /\ UNCHANGED <<gpu, intref, obs, probe, timer, cart, mem, regs>>

\* decode_instruction while is_halted: the early return (self.pc, 4)
ExecuteHalted ==
    /\ is_halted
    /\ Executed("halted", pc, 4)
    /\ UNCHANGED <<sp, ime, is_halted, reg_a, bus>>

\* Instructions::NOP
ExecuteNOP ==
    /\ ~is_halted
    /\ Executed("NOP", (pc + 1) % 65536, 4)
    /\ UNCHANGED <<sp, ime, is_halted, reg_a, bus>>

\* Instructions::LD(Byte(A, D8))
ExecuteLDAd8 ==
    /\ ~is_halted
    /\ \E d8 \in ImmBytes : reg_a' = d8
    /\ Executed("LD", (pc + 2) % 65536, 8)
    /\ UNCHANGED <<sp, ime, is_halted, bus>>

\* Instructions::LD(Byte(A16, A))
ExecuteLDa16A ==
    /\ ~is_halted
    /\ \E a16 \in WriteAddrs : bus' = CPU_write_byte(bus, a16, reg_a)
    /\ Executed("LD", (pc + 3) % 65536, 16)
    /\ UNCHANGED <<sp, ime, is_halted, reg_a>>

\* Instructions::DI
ExecuteDI ==
    /\ ~is_halted
    /\ ime' = FALSE
    /\ Executed("DI", (pc + 1) % 65536, 4)
    /\ UNCHANGED <<sp, is_halted, reg_a, bus>>

\* Instructions::EI
ExecuteEI ==
    /\ ~is_halted
    /\ ime' = TRUE
    /\ Executed("EI", (pc + 1) % 65536, 4)
    /\ UNCHANGED <<sp, is_halted, reg_a, bus>>

\* Instructions::HALT
ExecuteHALT ==
    /\ ~is_halted
    /\ is_halted' = TRUE
    /\ Executed("HALT", pc, 4)
    /\ UNCHANGED <<sp, ime, reg_a, bus>>

\* Instructions::RETI (u16 arithmetic wraps as in a release build), for a
\* stack pointer inside the tracked high RAM
ExecuteRETI ==
    /\ ~is_halted
    /\ sp \in StackAddrs
    /\ ime' = TRUE
    /\ sp' = (sp + 2) % 65536
    /\ Executed("RETI", CPU_read_word(bus, sp), 16)
    /\ UNCHANGED <<is_halted, reg_a, bus>>

\* update_emulator: self.update_timers(cycles)
UpdateTimers ==
    /\ phase = "timers"
    /\ bus' = CPU_update_timers(bus, cycles)
    /\ phase' = "graphics"
    /\ UNCHANGED <<pc, sp, ime, is_halted, reg_a, cycles, steps, fetched>>
    /\ UNCHANGED <<gpu, intref, obs, probe, timer, cart, mem, regs>>

\* update_emulator: self.update_graphics(cycles)
UpdateGraphics ==
    /\ phase = "graphics"
    /\ bus' = CPU_update_graphics(bus, cycles)
    /\ phase' = "interrupts"
    /\ UNCHANGED <<pc, sp, ime, is_halted, reg_a, cycles, steps, fetched>>
    /\ UNCHANGED <<gpu, intref, obs, probe, timer, cart, mem, regs>>

\* update_emulator: self.process_interrupts()
ProcessInterrupts ==
    /\ phase = "interrupts"
    /\ LET r == CPU_process_interrupts([pc |-> pc, sp |-> sp, ime |-> ime, bus |-> bus])
       IN /\ pc' = r.pc
          /\ sp' = r.sp
          /\ ime' = r.ime
          /\ bus' = r.bus
    /\ phase' = "execute"
    /\ steps' = steps + 1
    /\ UNCHANGED <<is_halted, reg_a, cycles, fetched>>
    /\ UNCHANGED <<gpu, intref, obs, probe, timer, cart, mem, regs>>


-----------------------------------------------------------------------------
(* The stand-alone PPU of src/src/system/gpu.rs.  VRAM and OAM stay blank  *)
(* (the modelled runs write only registers), so every pixel of a rendered  *)
(* row has colour index 0 and a row is one shade; sprites are transparent. *)

ScreenRows == 0 .. (TrackedRows - 1)

\* Interrupt::set_interrupt, mask 0x01 VBlank, 0x02 LCDStat
Interrupt_set_interrupt(i, mask) ==
    [i EXCEPT !.interrupt_flag = BitOr(i.interrupt_flag, mask)]

\* Interrupt::new
Interrupt_new ==
    [interrupt_enable |-> 0, interrupt_flag |-> 0,
     interrupt_master_enable |-> TRUE, interrupt_delay |-> FALSE]

\* GPU::new
GPU_new ==
    [lcdc |-> 0, scanline_counter |-> 456, current_line |-> 0, mode |-> 0,
     enable_ly_interrupt |-> FALSE, enable_m2_interrupt |-> FALSE,
     enable_m1_interrupt |-> FALSE, enable_m0_interrupt |-> FALSE,
     lyc |-> 0, vblank |-> FALSE, hblank |-> FALSE,
     bg_palette |-> 0, obp0_palette |-> 0, obp1_palette |-> 0,
     scroll_x |-> 0, scroll_y |-> 0, window_x |-> 0, window_y |-> 0,
     screen_data |-> [r \in ScreenRows |-> 255]]

\* Lcdc::bit7 (LCD display enable) and Lcdc::bit0 (BG display)
Lcdc_bit7(g) == BitAnd(g.lcdc, 128) # 0
Lcdc_bit0(g) == BitAnd(g.lcdc, 1) # 0

\* render_tiles, DMG path: the shade BGP gives colour index 0
GPU_shade(palette) ==
    CASE BitAnd(palette, 3) = 0 -> 255
      [] BitAnd(palette, 3) = 1 -> 192
      [] BitAnd(palette, 3) = 2 -> 96
      [] OTHER -> 0

\* GPU::draw_scanline on blank VRAM/OAM: row current_line takes the BG shade
GPU_draw_scanline(g) ==
    IF Lcdc_bit0(g) /\ g.current_line \in ScreenRows
    THEN [g EXCEPT !.screen_data[g.current_line] = GPU_shade(g.bg_palette)]
    ELSE g

\* update_graphics: the dots the i-th of c loop iterations adds
GPU_chunk(cyc, i, c) == IF i = c - 1 THEN cyc % 80 ELSE 80

\* a PPU that forgets it already entered vertical blank
GPU_vblank_entered_never(g) == FALSE

\* update_graphics: `if self.stat.mode == 1 { continue; }`
GPU_vblank_entered(g) == g.mode = 1

\* update_graphics: the mode chain of one loop iteration, after the counter
\* and LY were advanced.  Returns the PPU and the interrupts it requested.
GPU_mode_step(g) ==
    IF g.current_line >= 144 THEN
        IF GPU_vblank_entered(g) THEN [gpu |-> g, vblank |-> FALSE, lcdstat |-> FALSE]
        ELSE [gpu |-> [g EXCEPT !.mode = 1, !.vblank = TRUE],
              vblank |-> TRUE, lcdstat |-> g.enable_m1_interrupt]
    ELSE IF g.scanline_counter <= 80 THEN
        IF g.mode = 2 THEN [gpu |-> g, vblank |-> FALSE, lcdstat |-> FALSE]
        ELSE [gpu |-> [g EXCEPT !.mode = 2],
              vblank |-> FALSE, lcdstat |-> g.enable_m2_interrupt]
    ELSE IF g.scanline_counter <= 80 + 172 THEN
        [gpu |-> [g EXCEPT !.mode = 3], vblank |-> FALSE, lcdstat |-> FALSE]
    ELSE
        IF g.mode = 0 THEN [gpu |-> g, vblank |-> FALSE, lcdstat |-> FALSE]
        ELSE [gpu |-> GPU_draw_scanline([g EXCEPT !.mode = 0, !.hblank = TRUE]),
              vblank |-> FALSE, lcdstat |-> g.enable_m0_interrupt]

\* update_graphics: one loop iteration adding `add` dots.  The result holds
\* the PPU and what the iteration did: the interrupts requested, whether LY
\* was incremented, and the value LY has afterwards.
GPU_iteration(g, add) ==
    LET d == g.scanline_counter + add
        counter == d % 456
        inc == d # counter
        line == IF inc THEN (g.current_line + 1) % 154 ELSE g.current_line
        lyc_hit == inc /\ g.enable_ly_interrupt /\ line = g.lyc
        m == GPU_mode_step([g EXCEPT !.scanline_counter = counter, !.current_line = line])
    IN [gpu |-> m.gpu,
        vblank |-> m.vblank,
        lcdstat |-> (m.lcdstat \/ lyc_hit),
        inc |-> inc,
        line |-> line]

\* update_graphics: iterations i .. c-1 of the loop; log collects what each did
RECURSIVE GPU_loop(_, _, _, _, _)
GPU_loop(g, cyc, i, c, log) ==
    IF i >= c THEN [gpu |-> g, log |-> log]
    ELSE LET r == GPU_iteration(g, GPU_chunk(cyc, i, c))
         IN GPU_loop(r.gpu, cyc, i + 1, c,
                     Append(log, [vblank |-> r.vblank, lcdstat |-> r.lcdstat,
                                  inc |-> r.inc, line |-> r.line]))

\* an update_graphics that ticks on while the display is off
GPU_update_graphics_unguarded(g, cyc) ==
    IF cyc = 0 THEN [gpu |-> g, log |-> <<>>]
    ELSE GPU_loop([g EXCEPT !.hblank = FALSE], cyc, 0, (cyc - 1) \div 80 + 1, <<>>)

\* GPU::update_graphics(cycles)
GPU_update_graphics(g, cyc) ==
    LET g0 == [g EXCEPT !.hblank = FALSE] IN
    IF ~Lcdc_bit7(g0) THEN [gpu |-> g0, log |-> <<>>]
    ELSE IF cyc = 0 THEN [gpu |-> g0, log |-> <<>>]
    ELSE GPU_loop(g0, cyc, 0, (cyc - 1) \div 80 + 1, <<>>)

\* the interrupt cell after the requests of a log were made
RECURSIVE Interrupt_after(_, _)
Interrupt_after(i, log) ==
    IF log = <<>> THEN i
    ELSE LET e == Head(log)
             i1 == IF e.vblank THEN Interrupt_set_interrupt(i, 1) ELSE i
             i2 == IF e.lcdstat THEN Interrupt_set_interrupt(i1, 2) ELSE i1
         IN Interrupt_after(i2, Tail(log))

\* a display-off reset that leaves LY and the mode where they were
GPU_lcd_off_keeps_position(g) ==
    [g EXCEPT !.scanline_counter = 0,
              !.screen_data = [r \in ScreenRows |-> 255],
              !.vblank = TRUE]

\* write_registers, 0xFF40: the reset done when bit 7 of the new value is clear
GPU_lcd_off(g) ==
    [g EXCEPT !.scanline_counter = 0,
              !.current_line = 0,
              !.mode = 0,
              !.screen_data = [r \in ScreenRows |-> 255],
              !.vblank = TRUE]

\* GPU::write_registers(address, value) for 0xFF40 .. 0xFF4B
GPU_write_registers(g, address, value) ==
    CASE address = 65344 ->
            LET g1 == [g EXCEPT !.lcdc = value]
            IN IF ~Lcdc_bit7(g1) THEN GPU_lcd_off(g1) ELSE g1
      [] address = 65345 ->
            [g EXCEPT !.enable_ly_interrupt = (BitAnd(value, 64) # 0),
                      !.enable_m2_interrupt = (BitAnd(value, 32) # 0),
                      !.enable_m1_interrupt = (BitAnd(value, 16) # 0),
                      !.enable_m0_interrupt = (BitAnd(value, 8) # 0)]
      [] address = 65346 -> [g EXCEPT !.scroll_y = value]
      [] address = 65347 -> [g EXCEPT !.scroll_x = value]
      [] address = 65348 -> [g EXCEPT !.current_line = 0]
      [] address = 65349 -> [g EXCEPT !.lyc = value]
      [] address = 65351 -> [g EXCEPT !.bg_palette = value]
      [] address = 65352 -> [g EXCEPT !.obp0_palette = value]
      [] address = 65353 -> [g EXCEPT !.obp1_palette = value]
      [] address = 65354 -> [g EXCEPT !.window_y = value]
      [] address = 65355 -> [g EXCEPT !.window_x = value]


-----------------------------------------------------------------------------
(* The stand-alone timer (src/src/system/timer.rs) and the timer registers *)
(* of the stand-alone bus (src/src/system/bus.rs).                         *)

\* Timer::new
Timer_new ==
    [tima |-> 0, clock_counter |-> 1024, divider_register |-> 0,
     divider_counter |-> 0, tma |-> 0, input_clock_speed |-> 1024,
     clock_enabled |-> FALSE]

\* update_timers: while self.divider_counter > 256 { DIV += 1; counter -= 256 }
RECURSIVE Timer_divider_loop(_)
Timer_divider_loop(t) ==
    IF t.divider_counter > 256
    THEN Timer_divider_loop([t EXCEPT !.divider_register = (@ + 1) % 256,
                                      !.divider_counter = @ - 256])
    ELSE t

Timer_overflow_without_request(t) ==
    [timer |-> [t EXCEPT !.tima = t.tma], request |-> FALSE]

\* update_timers: if self.tima == 0x00 { self.tima = self.tma; set_interrupt(Timer) }
Timer_overflow(t) ==
    [timer |-> [t EXCEPT !.tima = t.tma], request |-> TRUE]

\* update_timers: one iteration of `for _ in 0..rs`; r carries the timer, the
\* number of set_interrupt(Timer) calls made, the number of increments that
\* started from 0xFF and whether the last increment was one of them
Timer_increment(r) ==
    LET from_ff == r.timer.tima = 255
        t1 == [r.timer EXCEPT !.tima = (@ + 1) % 256]
        o == Timer_overflow(t1)
    IN IF t1.tima = 0
       THEN [timer |-> o.timer,
             requests |-> r.requests + (IF o.request THEN 1 ELSE 0),
             from_ff |-> r.from_ff + (IF from_ff THEN 1 ELSE 0),
             last_from_ff |-> from_ff]
       ELSE [timer |-> t1, requests |-> r.requests,
             from_ff |-> r.from_ff + (IF from_ff THEN 1 ELSE 0),
             last_from_ff |-> from_ff]

\* update_timers: `for _ in 0..rs`, rs iterations in order, evaluated as two
\* consecutive runs of half the length, the first finished before the
\* second starts
RECURSIVE Timer_tima_loop(_, _)
Timer_tima_loop(r, rs) ==
    IF rs = 0 THEN r
    ELSE IF rs = 1 THEN Timer_increment(r)
    ELSE LET first == Timer_tima_loop(r, rs \div 2)
         IN IF first.requests >= 0
            THEN Timer_tima_loop(first, rs - (rs \div 2))
            ELSE first

\* Timer::update_timers(cycles)
Timer_update_timers(t, c) ==
    LET t1 == Timer_divider_loop([t EXCEPT !.divider_counter = @ + c])
        r0 == [timer |-> t1, requests |-> 0, from_ff |-> 0, last_from_ff |-> FALSE]
    IN IF t1.clock_enabled
       THEN LET cc == t1.clock_counter + c
                rs == cc \div t1.input_clock_speed
                t2 == [t1 EXCEPT !.clock_counter = cc % t1.input_clock_speed]
            IN Timer_tima_loop([r0 EXCEPT !.timer = t2], rs)
       ELSE r0

\* the set_interrupt(Interrupts::Timer) calls of one update_timers, applied
\* to the shared Interrupt cell
Interrupt_after_timer(i, requests) ==
    IF requests > 0 THEN Interrupt_set_interrupt(i, 4) ELSE i

\* MemoryBus::read_byte, arms DIVIDER_REGISTER, TIMA and TAC (TMA has no arm
\* and falls to `_ => 0x00`)
MemoryBus_read_timer(t, address) ==
    CASE address = 65284 -> t.divider_register
      [] address = 65285 -> t.tima
      [] address = 65287 ->
           (IF t.clock_enabled THEN 4 ELSE 0)
           + (CASE t.input_clock_speed = 1024 -> 0
                [] t.input_clock_speed = 6 -> 1
                [] t.input_clock_speed = 64 -> 2
                [] t.input_clock_speed = 256 -> 3
                [] OTHER -> 0)
      [] OTHER -> 0

MemoryBus_write_div_stores(t, value) == [t EXCEPT !.divider_register = value]

\* MemoryBus::write_byte, arm DIVIDER_REGISTER
MemoryBus_write_div(t, value) == [t EXCEPT !.divider_register = 0]

\* MemoryBus::write_byte, arms DIVIDER_REGISTER, TIMA, TMA and TAC
MemoryBus_write_timer(t, address, value) ==
    CASE address = 65284 -> MemoryBus_write_div(t, value)
      [] address = 65285 -> [t EXCEPT !.tima = value]
      [] address = 65286 -> [t EXCEPT !.tma = value]
      [] address = 65287 ->
           [t EXCEPT !.clock_enabled = (BitAnd(value, 4) # 0),
                     !.input_clock_speed =
                         CASE BitAnd(value, 3) = 0 -> 1024
                           [] BitAnd(value, 3) = 1 -> 16
                           [] BitAnd(value, 3) = 2 -> 64
                           [] OTHER -> 256]
      [] OTHER -> t

-----------------------------------------------------------------------------
(* The cartridge (src/src/system/cartridge.rs).  A read returns Byte(v) or *)
(* Fails when the code panics (an index past the end of a vector, an       *)
(* explicit panic!, unreachable!); a failed write sets cart.panicked.      *)

Byte(v) == [panics |-> FALSE, value |-> v]

Fails == [panics |-> TRUE, value |-> 0]

\* the byte at index i of the ROM image of the modelled cartridges
GameRom(i) == (i + (i \div 16384)) % 256

\* RealTimeClock::new
RealTimeClock_new == [s |-> 0, m |-> 0, h |-> 0, dl |-> 0, dh |-> 0]

\* Cartridge::new followed by determine_mbc, for a ROM image of rom_len bytes
\* whose header selects variant mbc with ram_len bytes of external RAM;
\* game_ram holds the bytes written so far, every other byte being 0
Cartridge_new(mbc, rom_len, ram_len) ==
    [mbc |-> mbc, rom_len |-> rom_len, ram_len |-> ram_len,
     game_ram |-> <<>>, ram_enabled |-> FALSE, bank_mode |-> "Rom",
     rtc |-> RealTimeClock_new, rom_bank |-> 1, ram_bank |-> 0, bank |-> 1,
     panicked |-> FALSE]

\* self.game_rom[i]
Cartridge_game_rom(c, i) == IF i < c.rom_len THEN Byte(GameRom(i)) ELSE Fails

\* self.game_ram[i]
Cartridge_game_ram(c, i) ==
    IF i >= c.ram_len THEN Fails
    ELSE IF i \in DOMAIN c.game_ram THEN Byte(c.game_ram[i]) ELSE Byte(0)

\* self.game_ram[i] = value
Cartridge_store(c, i, value) ==
    IF i >= c.ram_len THEN [c EXCEPT !.panicked = TRUE]
    ELSE [c EXCEPT !.game_ram = (i :> value) @@ @]

\* a rom_bank() that returns only the upper bank bits
Cartridge_rom_bank_upper(c) == BitAnd(c.bank, 96)

\* Cartridge::rom_bank()
Cartridge_rom_bank(c) ==
    IF c.bank_mode = "Rom" THEN BitAnd(c.bank, 127) ELSE BitAnd(c.bank, 31)

\* Cartridge::ram_bank()
Cartridge_ram_bank(c) ==
    IF c.bank_mode = "Rom" THEN 0 ELSE BitAnd(c.bank, 96) \div 32

\* RealTimeClock::read_rtc
RealTimeClock_read_rtc(r, address) ==
    CASE address = 8 -> Byte(r.s)
      [] address = 9 -> Byte(r.m)
      [] address = 10 -> Byte(r.h)
      [] address = 11 -> Byte(r.dl)
      [] address = 12 -> Byte(r.dh)
      [] OTHER -> Fails

\* RealTimeClock::write_rtc
RealTimeClock_write_rtc(c, address, value) ==
    CASE address = 8 -> [c EXCEPT !.rtc.s = value]
      [] address = 9 -> [c EXCEPT !.rtc.m = value]
      [] address = 10 -> [c EXCEPT !.rtc.h = value]
      [] address = 11 -> [c EXCEPT !.rtc.dl = value]
      [] address = 12 -> [c EXCEPT !.rtc.dh = value]
      [] OTHER -> [c EXCEPT !.panicked = TRUE]

\* RealTimeClock::tick, d seconds after the clock's epoch
RealTimeClock_tick(r, d) ==
    LET days == (d \div 86400) % 65536
    IN [r EXCEPT !.s = d % 60, !.m = (d \div 60) % 60, !.h = (d \div 3600) % 24,
                 !.dl = days % 256,
                 !.dh = IF days <= 255 THEN @
                        ELSE IF days <= 511 THEN BitOr(@, 1)
                        ELSE BitOr(@, 129)]

Cartridge_read_byte_none(c, address) == Cartridge_game_rom(c, address)

Cartridge_read_byte_mbc1(c, address) ==
    IF address <= 16383 THEN Cartridge_game_rom(c, address)
    ELSE IF address <= 32767
    THEN Cartridge_game_rom(c, Cartridge_rom_bank(c) * 16384 + address - 16384)
    ELSE IF address \in 40960 .. 49151
    THEN IF c.ram_enabled
         THEN Cartridge_game_ram(c, Cartridge_ram_bank(c) * 8192 + address - 40960)
         ELSE Byte(0)
    ELSE Byte(255)

Cartridge_read_byte_mbc2(c, address) ==
    IF address <= 16383 THEN Cartridge_game_rom(c, address)
    ELSE IF address <= 32767
    THEN Cartridge_game_rom(c, c.rom_bank * 16384 + address - 16384)
    ELSE IF address \in 40960 .. 41471
    THEN IF c.ram_enabled THEN Cartridge_game_ram(c, address - 40960) ELSE Byte(0)
    ELSE Byte(255)

Cartridge_read_byte_mbc3(c, address) ==
    IF address <= 16383 THEN Cartridge_game_rom(c, address)
    ELSE IF address <= 32767
    THEN Cartridge_game_rom(c, c.rom_bank * 16384 + address - 16384)
    ELSE IF address \in 40960 .. 49151
    THEN IF c.ram_enabled
         THEN IF c.ram_bank <= 3
              THEN Cartridge_game_ram(c, c.ram_bank * 8192 + address - 40960)
              ELSE RealTimeClock_read_rtc(c.rtc, c.ram_bank)
         ELSE Byte(0)
    ELSE Byte(0)

Cartridge_read_byte_mbc5(c, address) ==
    IF address <= 16383 THEN Cartridge_game_rom(c, address)
    ELSE IF address <= 32767
    THEN Cartridge_game_rom(c, c.rom_bank * 16384 + address - 16384)
    ELSE IF address \in 40960 .. 49151
    THEN IF c.ram_enabled
         THEN Cartridge_game_ram(c, c.ram_bank * 8192 + address - 40960)
         ELSE Byte(0)
    ELSE Byte(0)

\* Cartridge::read_byte
Cartridge_read_byte(c, address) ==
    CASE c.mbc = "None" -> Cartridge_read_byte_none(c, address)
      [] c.mbc = "MBC1" -> Cartridge_read_byte_mbc1(c, address)
      [] c.mbc = "MBC2" -> Cartridge_read_byte_mbc2(c, address)
      [] c.mbc = "MBC3" -> Cartridge_read_byte_mbc3(c, address)
      [] c.mbc = "MBC5" -> Cartridge_read_byte_mbc5(c, address)

Cartridge_write_byte_none(c, address, value) == c

Cartridge_write_byte_mbc1(c, address, value) ==
    IF address \in 40960 .. 49151
    THEN IF c.ram_enabled /\ c.ram_len # 0
         THEN Cartridge_store(c, Cartridge_ram_bank(c) * 8192 + address - 40960, value)
         ELSE c
    ELSE IF address <= 8191
    THEN [c EXCEPT !.ram_enabled = (BitAnd(value, 15) = 10)]
    ELSE IF address <= 16383
    THEN LET v == IF BitAnd(value, 31) = 0 THEN 1 ELSE BitAnd(value, 31)
         IN [c EXCEPT !.bank = BitOr(BitAnd(@, 96), v)]
    ELSE IF address <= 24575
    THEN [c EXCEPT !.bank = BitOr(BitAnd(@, 159), BitAnd(value, 3) * 32)]
    ELSE IF address <= 32767
    THEN CASE value = 0 -> [c EXCEPT !.bank_mode = "Rom"]
           [] value = 1 -> [c EXCEPT !.bank_mode = "Ram"]
           [] OTHER -> [c EXCEPT !.panicked = TRUE]
    ELSE c

Cartridge_write_byte_mbc2(c, address, value) ==
    LET v == BitAnd(value, 15)
    IN IF address \in 40960 .. 41471
       THEN IF c.ram_enabled THEN Cartridge_store(c, address - 40960, v) ELSE c
       ELSE IF address <= 8191
       THEN IF BitAnd(address, 256) = 0 THEN [c EXCEPT !.ram_enabled = (v = 10)] ELSE c
       ELSE IF address <= 16383
       THEN IF BitAnd(address, 256) # 0 THEN [c EXCEPT !.rom_bank = v] ELSE c
       ELSE c

Cartridge_write_byte_mbc3(c, address, value, d) ==
    IF address \in 40960 .. 49151
    THEN IF c.ram_enabled
         THEN IF c.ram_bank <= 3
              THEN Cartridge_store(c, c.ram_bank * 8192 + address - 40960, value)
              ELSE RealTimeClock_write_rtc(c, c.ram_bank, value)
         ELSE c
    ELSE IF address <= 8191
    THEN [c EXCEPT !.ram_enabled = (BitAnd(value, 15) = 10)]
    ELSE IF address <= 16383
    THEN [c EXCEPT !.rom_bank = IF BitAnd(value, 127) = 0 THEN 1 ELSE BitAnd(value, 127)]
    ELSE IF address <= 24575
    THEN [c EXCEPT !.ram_bank = BitAnd(value, 15)]
    ELSE IF address <= 32767
    THEN IF BitAnd(value, 1) # 0 THEN [c EXCEPT !.rtc = RealTimeClock_tick(@, d)] ELSE c
    ELSE c

Cartridge_write_byte_mbc5(c, address, value) ==
    IF address \in 40960 .. 49151
    THEN IF c.ram_enabled
         THEN Cartridge_store(c, c.ram_bank * 8192 + address - 40960, value)
         ELSE c
    ELSE IF address <= 8191
    THEN [c EXCEPT !.ram_enabled = (BitAnd(value, 15) = 10)]
    ELSE IF address <= 12287
    THEN [c EXCEPT !.rom_bank = BitOr(BitAnd(@, 256), value)]
    ELSE IF address <= 16383
    THEN [c EXCEPT !.rom_bank = BitOr(BitAnd(@, 255), BitAnd(value, 1) * 256)]
    ELSE IF address <= 24575
    THEN [c EXCEPT !.ram_bank = BitAnd(value, 15)]
    ELSE c

\* Cartridge::write_byte; d is the wall-clock reading an RTC latch would take
Cartridge_write_byte(c, address, value, d) ==
    CASE c.mbc = "None" -> Cartridge_write_byte_none(c, address, value)
      [] c.mbc = "MBC1" -> Cartridge_write_byte_mbc1(c, address, value)
      [] c.mbc = "MBC2" -> Cartridge_write_byte_mbc2(c, address, value)
      [] c.mbc = "MBC3" -> Cartridge_write_byte_mbc3(c, address, value, d)
      [] c.mbc = "MBC5" -> Cartridge_write_byte_mbc5(c, address, value)

-----------------------------------------------------------------------------
(* The stand-alone bus (src/src/system/bus.rs).  A bus value b holds the   *)
(* components the decoder owns: b.mem (WRAM, HRAM, joypad, serial, audio,  *)
(* speed switch, HDMA registers, and the VRAM, OAM and colour palettes of  *)
(* the PPU), b.gpu (the PPU registers), b.timer, b.cart and b.intref.      *)
(* Arrays hold the bytes written so far, every other byte being 0.         *)

Get(m, i) == IF i \in DOMAIN m THEN m[i] ELSE 0

\* Gpi::new
Gpi_new == [index |-> 0, auto_increment |-> FALSE]

\* HDMA::new
HDMA_new ==
    [source |-> 0, destination |-> 32768, active |-> FALSE, mode |-> "GDMA",
     remain |-> 0]

\* MMU: `pub wram: [u8; 0x2000]`
MMU_wram_len == 8192

\* self.memory.wram[i]: an index past the array panics
MMU_wram_read(m, i) == IF i < MMU_wram_len THEN Byte(Get(m.wram, i)) ELSE Fails

\* self.memory.wram[i] = value
MMU_wram_write(b, i, value) ==
    IF i < MMU_wram_len THEN [b EXCEPT !.mem.wram = (i :> value) @@ @]
    ELSE [b EXCEPT !.mem.panicked = TRUE]

\* the memory the decoder of bus.rs indexes: the 8 KiB of WRAM, the bank
\* wram_bank selects, HRAM at FF80-FFFE, and the state of Joypad::new,
\* Serial::new, APU::new, HDMA::new and of the arrays of GPU::new
MMU_new ==
    [wram_bank |-> 1, wram |-> <<>>, hram |-> <<>>,
     vram |-> <<>>, vram_bank |-> 0, oam |-> <<>>,
     bgpi |-> Gpi_new, obpi |-> Gpi_new, bgpd |-> <<>>, obpd |-> <<>>,
     matrix |-> 255, select |-> 0, data |-> 0, control |-> 0,
     sound_data |-> <<>>, speed |-> "Regular", speed_shift |-> FALSE,
     hdma |-> HDMA_new, run_bootrom |-> FALSE, panicked |-> FALSE]

\* Joypad::get_joypad_state
Joypad_get_joypad_state(m) ==
    IF BitAnd(m.select, 16) = 0 THEN BitOr(m.select, BitAnd(m.matrix, 15))
    ELSE IF BitAnd(m.select, 32) = 0 THEN BitOr(m.select, m.matrix \div 16)
    ELSE m.select

\* HDMA::read_hdma: the arm for the destination high byte is 0xFF43
HDMA_read_hdma(h, address) ==
    CASE address = 65361 -> Byte(h.source \div 256)
      [] address = 65362 -> Byte(h.source % 256)
      [] address = 65347 -> Byte(h.destination \div 256)
      [] address = 65364 -> Byte(h.destination % 256)
      [] address = 65365 -> Byte(BitOr(h.remain, IF h.active THEN 0 ELSE 128))
      [] OTHER -> Fails

\* a write_hdma for which a write to 0xFF55 always starts a transfer
HDMA_write_hdma_restart(h, address, value) ==
    CASE address = 65361 -> [h EXCEPT !.source = value * 256 + (h.source % 256)]
      [] address = 65362 ->
           [h EXCEPT !.source = (h.source \div 256) * 256 + BitAnd(value, 240)]
      [] address = 65363 ->
           [h EXCEPT !.destination =
               BitOr(32768, BitAnd(value, 31) * 256 + (h.destination % 256))]
      [] address = 65364 ->
           [h EXCEPT !.destination =
               (h.destination \div 256) * 256 + BitAnd(value, 240)]
      [] address = 65365 ->
           [h EXCEPT !.active = TRUE,
                     !.remain = BitAnd(value, 127),
                     !.mode = IF BitAnd(value, 128) # 0 THEN "HDMA" ELSE "GDMA"]

\* HDMA::write_hdma
HDMA_write_hdma(h, address, value) ==
    CASE address = 65361 -> [h EXCEPT !.source = value * 256 + (h.source % 256)]
      [] address = 65362 ->
           [h EXCEPT !.source = (h.source \div 256) * 256 + BitAnd(value, 240)]
      [] address = 65363 ->
           [h EXCEPT !.destination =
               BitOr(32768, BitAnd(value, 31) * 256 + (h.destination % 256))]
      [] address = 65364 ->
           [h EXCEPT !.destination =
               (h.destination \div 256) * 256 + BitAnd(value, 240)]
      [] address = 65365 ->
           IF h.active /\ h.mode = "HDMA"
           THEN IF BitAnd(value, 128) = 0 THEN [h EXCEPT !.active = FALSE] ELSE h
           ELSE [h EXCEPT !.active = TRUE,
                          !.remain = BitAnd(value, 127),
                          !.mode = IF BitAnd(value, 128) # 0 THEN "HDMA" ELSE "GDMA"]

\* read_registers, arms 0xFF69 and 0xFF6B: the palette byte index i selects
Gpd_read(pd, i) ==
    LET rc == (i \div 8) * 12 + ((i \div 2) % 4) * 3
    IN IF i % 2 = 0
       THEN BitOr(Get(pd, rc), (Get(pd, rc + 1) * 32) % 256)
       ELSE BitOr(Get(pd, rc + 1) \div 8, (Get(pd, rc + 2) * 4) % 256)

\* write_registers, arms 0xFF69 and 0xFF6B: the palette data after the write
Gpd_write(pd, i, value) ==
    LET rc == (i \div 8) * 12 + ((i \div 2) % 4) * 3
    IN IF i % 2 = 0
       THEN (rc :> BitAnd(value, 31))
            @@ ((rc + 1) :> BitOr(BitAnd(Get(pd, rc + 1), 24), value \div 32))
            @@ pd
       ELSE ((rc + 1) :> BitOr(BitAnd(Get(pd, rc + 1), 7), BitAnd(value, 3) * 8))
            @@ ((rc + 2) :> BitAnd(value \div 4, 31))
            @@ pd

\* an index that is incremented without the mask 0x3F
Gpi_advance_unmasked(p) ==
    IF p.auto_increment THEN [p EXCEPT !.index = p.index + 1] ELSE p

\* write_registers, arms 0xFF69 and 0xFF6B: the index after the write
Gpi_advance(p) ==
    IF p.auto_increment THEN [p EXCEPT !.index = (p.index + 1) % 64] ELSE p

\* Gpi::read
Gpi_read(p) == BitOr(IF p.auto_increment THEN 128 ELSE 0, p.index)

\* Gpi::write
Gpi_write(p, value) ==
    [index |-> BitAnd(value, 63), auto_increment |-> (BitAnd(value, 128) # 0)]

\* GPU::read_registers(address): no arm for 0xFF46
GPU_read_registers(b, address) ==
    LET g == b.gpu
        m == b.mem
    IN CASE address = 65344 -> Byte(g.lcdc)
         [] address = 65345 ->
              Byte((IF g.enable_ly_interrupt THEN 64 ELSE 0)
                   + (IF g.enable_m2_interrupt THEN 32 ELSE 0)
                   + (IF g.enable_m1_interrupt THEN 16 ELSE 0)
                   + (IF g.enable_m0_interrupt THEN 8 ELSE 0)
                   + (IF g.current_line = g.lyc THEN 4 ELSE 0)
                   + g.mode)
         [] address = 65346 -> Byte(g.scroll_y)
         [] address = 65347 -> Byte(g.scroll_x)
         [] address = 65348 -> Byte(g.current_line)
         [] address = 65349 -> Byte(g.lyc)
         [] address = 65351 -> Byte(g.bg_palette)
         [] address = 65352 -> Byte(g.obp0_palette)
         [] address = 65353 -> Byte(g.obp1_palette)
         [] address = 65354 -> Byte(g.window_y)
         [] address = 65355 -> Byte(g.window_x)
         [] address = 65359 -> Byte(BitOr(254, m.vram_bank))
         [] address = 65384 -> Byte(Gpi_read(m.bgpi))
         [] address = 65385 -> Byte(Gpd_read(m.bgpd, m.bgpi.index))
         [] address = 65386 -> Byte(Gpi_read(m.obpi))
         [] address = 65387 -> Byte(Gpd_read(m.obpd, m.obpi.index))
         [] OTHER -> Fails

\* GPU::write_registers(address, value), the arms the bus reaches
GPU_write_registers_bus(b, address, value) ==
    LET m == b.mem
    IN CASE address = 65359 -> [b EXCEPT !.mem.vram_bank = BitAnd(value, 1)]
         [] address = 65384 -> [b EXCEPT !.mem.bgpi = Gpi_write(m.bgpi, value)]
         [] address = 65385 ->
              [b EXCEPT !.mem.bgpd = Gpd_write(m.bgpd, m.bgpi.index, value),
                        !.mem.bgpi = Gpi_advance(m.bgpi)]
         [] address = 65386 -> [b EXCEPT !.mem.obpi = Gpi_write(m.obpi, value)]
         [] address = 65387 ->
              [b EXCEPT !.mem.obpd = Gpd_write(m.obpd, m.obpi.index, value),
                        !.mem.obpi = Gpi_advance(m.obpi)]
         [] address = 65350 -> [b EXCEPT !.mem.panicked = TRUE]
         [] OTHER -> [b EXCEPT !.gpu = GPU_write_registers(b.gpu, address, value)]

\* MemoryBus::read_byte(address); the arms in the order of the match
MemoryBus_read_byte(b, address) ==
    LET m == b.mem
    IN CASE address <= 32767 -> Cartridge_read_byte(b.cart, address)
         [] address \in 40960 .. 49151 -> Cartridge_read_byte(b.cart, address)
         [] address \in 32768 .. 40959 ->
              Byte(Get(m.vram, m.vram_bank * 8192 + address - 32768))
         [] address \in 49152 .. 53247 -> MMU_wram_read(m, address - 49152)
         [] address \in 53248 .. 57343 ->
              MMU_wram_read(m, address - 53248 + 4096 * m.wram_bank)
         [] address \in 57344 .. 61439 -> MMU_wram_read(m, address - 57344)
         [] address \in 61440 .. 65023 ->
              MMU_wram_read(m, address - 61440 + 4096 * m.wram_bank)
         [] address \in 65024 .. 65183 -> Byte(Get(m.oam, address - 65024))
         [] address \in 65344 .. 65355 -> GPU_read_registers(b, address)
         [] address \in 65408 .. 65534 -> Byte(Get(m.hram, address - 65408))
         [] address \in 65184 .. 65279 -> Byte(0)
         [] address = 65280 -> Byte(Joypad_get_joypad_state(m))
         [] address = 65295 -> Byte(b.intref.interrupt_flag)
         [] address = 65535 -> Byte(b.intref.interrupt_enable)
         [] address \in {65284, 65285, 65287} ->
              Byte(MemoryBus_read_timer(b.timer, address))
         [] address \in 65296 .. 65343 -> Byte(Get(m.sound_data, address - 65296))
         [] address = 65281 -> Byte(m.data)
         [] address = 65282 -> Byte(m.control)
         [] address = 65357 ->
              Byte((IF m.speed = "Double" THEN 128 ELSE 0)
                   + (IF m.speed_shift THEN 1 ELSE 0))
         [] address \in 65361 .. 65365 -> HDMA_read_hdma(m.hdma, address)
         [] address \in 65384 .. 65387 -> GPU_read_registers(b, address)
         [] address = 65392 -> Byte(m.wram_bank)
         [] OTHER -> Byte(0)

\* write_byte, arm 0xFF46: the 160 bytes read_byte gives from value << 8
MemoryBus_dma(b, value) ==
    LET from(i) == MemoryBus_read_byte(b, value * 256 + i)
    IN IF \E i \in 0 .. 159 : from(i).panics
       THEN [b EXCEPT !.mem.panicked = TRUE]
       ELSE [b EXCEPT !.mem.oam = [i \in 0 .. 159 |-> from(i).value]]

\* MemoryBus::write_byte(address, value); the arms in the order of the
\* match; d is the wall-clock reading an RTC latch would take
MemoryBus_write_byte(b, address, value, d) ==
    LET m == b.mem
    IN CASE address <= 32767 \/ address \in 40960 .. 49151 ->
              [b EXCEPT !.cart = Cartridge_write_byte(b.cart, address, value, d)]
         [] address = 65280 -> [b EXCEPT !.mem.select = value]
         [] address \in 32768 .. 40959 ->
              [b EXCEPT !.mem.vram =
                  ((m.vram_bank * 8192 + address - 32768) :> value) @@ @]
         [] address \in 49152 .. 53247 -> MMU_wram_write(b, address - 49152, value)
         [] address \in 53248 .. 57343 ->
              MMU_wram_write(b, address - 53248 + 4096 * m.wram_bank, value)
         [] address \in 57344 .. 61439 -> MMU_wram_write(b, address - 57344, value)
         [] address \in 61440 .. 65023 ->
              MMU_wram_write(b, address - 61440 + 4096 * m.wram_bank, value)
         [] address = 65295 -> [b EXCEPT !.intref.interrupt_flag = value]
         [] address \in 65284 .. 65287 ->
              [b EXCEPT !.timer = MemoryBus_write_timer(b.timer, address, value)]
         [] address \in 65296 .. 65343 ->
              [b EXCEPT !.mem.sound_data = ((address - 65296) :> value) @@ @]
         [] address = 65281 -> [b EXCEPT !.mem.data = value]
         [] address = 65282 -> [b EXCEPT !.mem.control = value]
         [] address \in 65408 .. 65534 ->
              [b EXCEPT !.mem.hram = ((address - 65408) :> value) @@ @]
         [] address \in 65024 .. 65183 ->
              [b EXCEPT !.mem.oam = ((address - 65024) :> value) @@ @]
         [] address \in 65184 .. 65279 -> b
         [] address = 65357 ->
              [b EXCEPT !.mem.speed_shift = (BitAnd(value, 1) = 1)]
         [] address \in 65361 .. 65365 ->
              [b EXCEPT !.mem.hdma = HDMA_write_hdma(m.hdma, address, value)]
         [] address \in 65384 .. 65387 ->
              GPU_write_registers_bus(b, address, value)
         [] address = 65392 ->
              [b EXCEPT !.mem.wram_bank =
                  IF BitAnd(value, 7) = 0 THEN 1 ELSE BitAnd(value, 7)]
         [] address = 65535 -> [b EXCEPT !.intref.interrupt_enable = value]
         [] address = 65350 -> MemoryBus_dma(b, value)
         [] address \in 65344 .. 65355 \/ address = 65359 ->
              GPU_write_registers_bus(b, address, value)
         [] OTHER -> b

-----------------------------------------------------------------------------
(* The register file (src/src/system/registers.rs).  A register file r is *)
(* [a, b, c, d, e, f, h, l] with f a record of the four flags.             *)

\* a flag conversion that puts the carry flag at bit 3
FlagsRegister_to_u8_carry_bit3(flag) ==
    (IF flag.zero THEN 128 ELSE 0) + (IF flag.subtract THEN 64 ELSE 0)
    + (IF flag.half_carry THEN 32 ELSE 0) + (IF flag.carry THEN 8 ELSE 0)

\* impl From<FlagsRegister> for u8
FlagsRegister_to_u8(flag) ==
    (IF flag.zero THEN 128 ELSE 0) + (IF flag.subtract THEN 64 ELSE 0)
    + (IF flag.half_carry THEN 32 ELSE 0) + (IF flag.carry THEN 16 ELSE 0)

\* impl From<u8> for FlagsRegister
FlagsRegister_from_u8(byte) ==
    [zero |-> ((byte \div 128) % 2 # 0), subtract |-> ((byte \div 64) % 2 # 0),
     half_carry |-> ((byte \div 32) % 2 # 0), carry |-> ((byte \div 16) % 2 # 0)]

\* Registers::get_af, get_bc, get_de, get_hl
Registers_get_af(r) == r.a * 256 + FlagsRegister_to_u8(r.f)
Registers_get_bc(r) == r.b * 256 + r.c
Registers_get_de(r) == r.d * 256 + r.e
Registers_get_hl(r) == r.h * 256 + r.l

\* Registers::set_af, set_bc, set_de, set_hl
Registers_set_af(r, value) ==
    [r EXCEPT !.a = BitAnd(value, 65280) \div 256,
              !.f = FlagsRegister_from_u8(BitAnd(value, 255))]
Registers_set_bc(r, value) ==
    [r EXCEPT !.b = BitAnd(value, 65280) \div 256, !.c = BitAnd(value, 255)]
Registers_set_de(r, value) ==
    [r EXCEPT !.d = BitAnd(value, 65280) \div 256, !.e = BitAnd(value, 255)]
Registers_set_hl(r, value) ==
    [r EXCEPT !.h = BitAnd(value, 65280) \div 256, !.l = BitAnd(value, 255)]

\* the register pair a StackTarget or LoadWordTarget names
Registers_get(r, target) ==
    CASE target = "AF" -> Registers_get_af(r)
      [] target = "BC" -> Registers_get_bc(r)
      [] target = "DE" -> Registers_get_de(r)
      [] target = "HL" -> Registers_get_hl(r)

Registers_set(r, target, value) ==
    CASE target = "AF" -> Registers_set_af(r, value)
      [] target = "BC" -> Registers_set_bc(r, value)
      [] target = "DE" -> Registers_set_de(r, value)
      [] target = "HL" -> Registers_set_hl(r, value)

\* Registers::new followed by the four set_ calls of CPU::initialize_system
Registers_initial ==
    Registers_set_hl(Registers_set_de(Registers_set_bc(Registers_set_af(
        [a |-> 0, b |-> 0, c |-> 0, d |-> 0, e |-> 0,
         f |-> FlagsRegister_from_u8(0), h |-> 0, l |-> 0],
        432), 19), 216), 333)

\* the registers besides A, which reg_a holds
RegistersBesidesA(r) ==
    [b |-> r.b, c |-> r.c, d |-> r.d, e |-> r.e, f |-> r.f, h |-> r.h, l |-> r.l]

\* the components no operation of a run touches, as their constructors
\* leave them
CartAtRest == Cartridge_new("None", 32768, 0)

MemAtRest == MMU_new

RegsAtRest == RegistersBesidesA(Registers_initial)

ComponentsAtRest ==
    /\ timer = Timer_new
    /\ cart = CartAtRest
    /\ mem = MemAtRest
    /\ regs = RegsAtRest


-----------------------------------------------------------------------------
(* Observations of a PPU run.  obs records what the last operation was and *)
(* what the run has shown so far; it is written, never read, by the PPU.   *)

ObsInit ==
    [op |-> "init",          \* the last operation: init, tick, lcdc, reg
     dots |-> 0,             \* dots ticked since the LCD was enabled
     vblank_sets |-> 0,      \* times update_graphics set the vblank flag
     visited |-> 0,          \* LY values taken in order: 0 .. visited
     period |-> FALSE,       \* LY wrapped 153 -> 0 and no register was written since
     period_vb |-> 0,        \* VBlank requests since that wrap
     vb_on_144 |-> TRUE,     \* every one of them came as LY became 144
     closed |-> FALSE,       \* the last tick ended such a period with a second wrap
     closed_vb |-> 0]        \* VBlank requests of the period it ended

\* what one loop iteration logged, added to the frame observations
Obs_frame_event(o, e) ==
    [o EXCEPT !.vblank_sets = IF e.vblank THEN @ + 1 ELSE @,
              !.visited = IF e.inc /\ e.line = @ + 1 THEN e.line ELSE @]

RECURSIVE Obs_frame(_, _)
Obs_frame(o, log) ==
    IF log = <<>> THEN o ELSE Obs_frame(Obs_frame_event(o, Head(log)), Tail(log))

\* what one loop iteration logged, added to the period observations
Obs_period_event(o, e) ==
    IF e.inc /\ e.line = 0
    THEN [o EXCEPT !.closed = o.period, !.closed_vb = o.period_vb,
                   !.period = TRUE, !.period_vb = 0, !.vb_on_144 = TRUE]
    ELSE IF e.vblank /\ o.period
    THEN [o EXCEPT !.period_vb = IF @ < 2 THEN @ + 1 ELSE @,
                   !.vb_on_144 = @ /\ e.inc /\ e.line = 144]
    ELSE o

RECURSIVE Obs_period(_, _)
Obs_period(o, log) ==
    IF log = <<>> THEN o ELSE Obs_period(Obs_period_event(o, Head(log)), Tail(log))


\* the timing probe before any opcode was decoded
ProbeIdle ==
    [decoded |-> FALSE, prefixed |-> FALSE, opcode |-> 0,
     zero |-> FALSE, carry |-> FALSE, halted |-> FALSE,
     panics |-> FALSE, cycles |-> 0]

-----------------------------------------------------------------------------
(* SpecCPU: the monolithic CPU running cartridge programs made of NOP,     *)
(* LD A,d8, LD (a16),A, DI, EI, HALT and RETI from the post-boot state.    *)

InitSpecCPU ==
    /\ \E pos \in BootPositions : InitCPUAt(pos)
    /\ gpu = GPU_new
    /\ intref = Interrupt_new
    /\ obs = ObsInit
    /\ probe = ProbeIdle
    /\ ComponentsAtRest

NextCPU ==
    \/ ExecuteHalted
    \/ ExecuteNOP
    \/ ExecuteLDAd8
    \/ ExecuteLDa16A
    \/ ExecuteDI
    \/ ExecuteEI
    \/ ExecuteHALT
    \/ ExecuteRETI
    \/ UpdateTimers
    \/ UpdateGraphics
    \/ ProcessInterrupts

SpecCPU == InitSpecCPU /\ [][NextCPU]_vars


-----------------------------------------------------------------------------
(* Interrupt and HALT properties of the monolithic CPU, checked under      *)
(* SpecCPU.                                                                *)

\* pending = IE & IF & 0x1F
Pending(b) == BitAnd(BitAnd(b.interrupt_enable, b.interrupt_flag), 31)

\* the step is process_interrupts entering a handler (only rstNN clears ime there)
Dispatched == phase = "interrupts" /\ ime /\ ~ime'

\* C1: at the interrupt check of a loop iteration, if IME is set and
\* pending = IE & IF & 0x1F is non-zero, the lowest pending source n in 0..4
\* is serviced: IME is cleared, only bit n of IF is cleared and PC becomes
\* 0x40 | (n << 3) (so Joypad, bit 4, goes to 0x60); with nothing pending
\* in bits 0..4 (bits 5-7 alone included) there is no dispatch.
C1_LowestPendingDispatched ==
    [][phase = "interrupts" =>
          IF ime /\ Pending(bus) # 0
          THEN LET n == TrailingZeros(Pending(bus))
               IN /\ ime' = FALSE
                  /\ bus'.interrupt_flag = bus.interrupt_flag - Pow2(n)
                  /\ pc' = 64 + 8 * n
          ELSE pc' = pc /\ sp' = sp /\ bus'.interrupt_flag = bus.interrupt_flag]_vars

\* C2: when an interrupt is dispatched the PC of the next instruction is
\* pushed (SP decreases by 2, low byte at the new SP, high byte at SP+1),
\* and RETI pops the word at SP into PC, adds 2 to SP and sets IME at once.
C2_EntryReturnRoundTrip ==
    [][/\ Dispatched =>
            /\ sp' = (sp - 2) % 65536
            /\ CPU_read_byte(bus', sp') = pc % 256
            /\ CPU_read_byte(bus', (sp' + 1) % 65536) = pc \div 256
       /\ (phase = "execute" /\ fetched' = "RETI") =>
            /\ pc' = CPU_read_word(bus, sp)
            /\ sp' = (sp + 2) % 65536
            /\ ime']_vars

\* C3: executing EI does not change IME, and no interrupt is dispatched in
\* the loop iteration that executed EI (between EI and the next
\* instruction); executing DI leaves IME false.
C3_EIDelayedByOne ==
    [][/\ (phase = "execute" /\ fetched' = "EI") => ime' = ime
       /\ (phase = "interrupts" /\ fetched = "EI") => (pc' = pc /\ sp' = sp)
       /\ (phase = "execute" /\ fetched' = "DI") => ~ime']_vars

\* C4: a halted CPU costs 4 cycles per loop iteration, and the interrupt
\* check of an iteration in which IE & IF & 0x1F is non-zero leaves the CPU
\* not halted, whatever IME is.
C4_HaltWakesOnPending ==
    [][/\ (phase = "execute" /\ is_halted) => cycles' = 4
       /\ (phase = "interrupts" /\ Pending(bus) # 0) => ~is_halted']_vars

\* C5: HALT executed with IME=0 and IE & IF & 0x1F non-zero does not halt
\* the CPU and PC moves past the HALT opcode (the halt bug then repeats the
\* next fetch); HALT executed in any other state halts.
C5_HaltBug ==
    [][(phase = "execute" /\ fetched' = "HALT") =>
          IF ~ime /\ Pending(bus) # 0
          THEN ~is_halted' /\ pc' = (pc + 1) % 65536
          ELSE is_halted']_vars


-----------------------------------------------------------------------------
(* The stand-alone PPU driven by its two entry points, update_graphics and *)
(* write_registers, from the state GPU::new builds.                        *)

InitPPU ==
    /\ InitCPUAt(<<0, 456>>)
    /\ gpu = GPU_new
    /\ intref = Interrupt_new
    /\ obs = ObsInit
    /\ probe = ProbeIdle
    /\ ComponentsAtRest

\* cycle counts handed to update_graphics: none, a multiple of 80, a third
\* of a scanline (two loop iterations), a whole scanline (six iterations)
TickSizes == {0, 80, 152, 456}

\* values written to LCDC: display and background off, display and background on
LcdcValues == {0, 129}

\* the registers 0xFF42, 0xFF43, 0xFF48 .. 0xFF4B: plain stores no tick reads
\* while VRAM is blank
PlainRegisters == {65346, 65347, 65352, 65353, 65354, 65355}

\* update_graphics(c) and the interrupt requests it makes
PpuTick ==
    /\ \E c \in TickSizes :
         LET r == GPU_update_graphics(gpu, c)
         IN /\ gpu' = r.gpu
            /\ intref' = Interrupt_after(intref, r.log)
    /\ obs' = [obs EXCEPT !.op = "tick"]
    /\ UNCHANGED <<pc, sp, ime, is_halted, reg_a, bus, phase, cycles, steps, fetched, probe,
                 timer, cart, mem, regs>>

\* write_registers(0xFF40, v)
PpuWriteLCDC ==
    /\ \E v \in LcdcValues : gpu' = GPU_write_registers(gpu, 65344, v)
    /\ obs' = [obs EXCEPT !.op = "lcdc"]
    /\ UNCHANGED <<pc, sp, ime, is_halted, reg_a, bus, phase, cycles, steps, fetched, probe,
                 timer, cart, mem, regs>>
    /\ UNCHANGED intref

\* write_registers(a, v) for the other registers of 0xFF41 .. 0xFF4B: STAT
\* with no or all four sources enabled, LY, LYC = 0, BGP mapping colour 0 to
\* white or black, and 0 stored to the plain registers
PpuWriteRegister ==
    /\ \/ \E v \in {0, 120} : gpu' = GPU_write_registers(gpu, 65345, v)
       \/ gpu' = GPU_write_registers(gpu, 65348, 0)
       \/ gpu' = GPU_write_registers(gpu, 65349, 0)
       \/ \E v \in {0, 3} : gpu' = GPU_write_registers(gpu, 65351, v)
       \/ \E a \in PlainRegisters : gpu' = GPU_write_registers(gpu, a, 0)
    /\ obs' = [obs EXCEPT !.op = "reg"]
    /\ UNCHANGED <<pc, sp, ime, is_halted, reg_a, bus, phase, cycles, steps, fetched, probe,
                 timer, cart, mem, regs>>
    /\ UNCHANGED intref

NextPPU == PpuTick \/ PpuWriteLCDC \/ PpuWriteRegister

SpecPPU == InitPPU /\ [][NextPPU]_vars


-----------------------------------------------------------------------------
(* SpecScan: the PPU over whole frames.  The LCD is switched on and off,   *)
(* LY is reset through 0xFF44, and ticks range from one instruction to     *)
(* more than two scanlines; obs follows the periods between LY wraps.      *)

ScanTicks == {24, 456, 1008}

ScanTick ==
    /\ \E c \in ScanTicks :
         LET r == GPU_update_graphics(gpu, c)
         IN /\ gpu' = r.gpu
            /\ intref' = Interrupt_after(intref, r.log)
            /\ obs' = Obs_period([obs EXCEPT !.op = "tick", !.closed = FALSE], r.log)
    /\ UNCHANGED <<pc, sp, ime, is_halted, reg_a, bus, phase, cycles, steps, fetched, probe,
                 timer, cart, mem, regs>>

ScanWriteLCDC ==
    /\ \E v \in LcdcValues : gpu' = GPU_write_registers(gpu, 65344, v)
    /\ obs' = [obs EXCEPT !.op = "lcdc", !.period = FALSE, !.period_vb = 0,
                          !.vb_on_144 = TRUE, !.closed = FALSE]
    /\ UNCHANGED <<pc, sp, ime, is_halted, reg_a, bus, phase, cycles, steps, fetched, probe,
                 timer, cart, mem, regs>>
    /\ UNCHANGED intref

ScanWriteLY ==
    /\ gpu' = GPU_write_registers(gpu, 65348, 0)
    /\ obs' = [obs EXCEPT !.op = "reg", !.period = FALSE, !.period_vb = 0,
                          !.vb_on_144 = TRUE, !.closed = FALSE]
    /\ UNCHANGED <<pc, sp, ime, is_halted, reg_a, bus, phase, cycles, steps, fetched, probe,
                 timer, cart, mem, regs>>
    /\ UNCHANGED intref

NextScan == ScanTick \/ ScanWriteLCDC \/ ScanWriteLY

SpecScan == InitPPU /\ [][NextScan]_vars

-----------------------------------------------------------------------------
(* SpecFrame: one frame from reset.  The LCD is enabled once and the PPU   *)
(* is advanced by the cycle counts of single instructions until 154 * 456  *)
(* dots were handed to it.                                                 *)

FrameDots == 154 * 456

\* the cycle counts decode_instruction returns
InstructionCycles == {4, 8, 12, 16, 20, 24}

FrameEnable ==
    /\ obs.op = "init"
    /\ \E v \in {128, 129} : gpu' = GPU_write_registers(gpu, 65344, v)
    /\ obs' = [obs EXCEPT !.op = "lcdc"]
    /\ UNCHANGED <<pc, sp, ime, is_halted, reg_a, bus, phase, cycles, steps, fetched, probe,
                 timer, cart, mem, regs>>
    /\ UNCHANGED intref

FrameTick ==
    /\ Lcdc_bit7(gpu)
    /\ \E c \in InstructionCycles :
         /\ obs.dots + c <= FrameDots
         /\ LET r == GPU_update_graphics(gpu, c)
            IN /\ gpu' = r.gpu
               /\ intref' = Interrupt_after(intref, r.log)
               /\ obs' = Obs_frame([obs EXCEPT !.op = "tick", !.dots = @ + c], r.log)
    /\ UNCHANGED <<pc, sp, ime, is_halted, reg_a, bus, phase, cycles, steps, fetched, probe,
                 timer, cart, mem, regs>>

NextFrame == FrameEnable \/ FrameTick

SpecFrame == InitPPU /\ [][NextFrame]_vars


-----------------------------------------------------------------------------
(* Properties of the stand-alone PPU.                                      *)

\* bit 0 (VBlank) of the interrupt flag
VBlankRequested == BitAnd(intref.interrupt_flag, 1) = 1

C7_FullFrameTraversal ==
    obs.dots = FrameDots =>
        /\ obs.visited = 153
        /\ obs.vblank_sets = 1
        /\ gpu.current_line = 0

\* C8: in every state reached by ticks and writes to 0xFF40..0xFF4B, LY is
\* in 0..153 and the mode in 0..3, and while LCDC bit 7 is clear LY and the
\* mode are both 0.
C8_PpuRange ==
    /\ gpu.current_line \in 0 .. 153
    /\ gpu.mode \in {0, 1, 2, 3}
    /\ ~Lcdc_bit7(gpu) => (gpu.current_line = 0 /\ gpu.mode = 0)

\* the display was switched off after the PPU had been through vertical blank
C8_Witness == obs.op = "lcdc" /\ ~Lcdc_bit7(gpu) /\ VBlankRequested

\* C9: a write to 0xFF40 with bit 7 clear leaves LY, the mode and the dot
\* counter 0, every framebuffer byte 0xFF and the vblank flag set; a tick of
\* any size while the display is off changes none of LY, mode, dot counter
\* and IF.
C9_DisableLcd ==
    [][/\ (obs'.op = "lcdc" /\ ~Lcdc_bit7(gpu')) =>
            /\ gpu'.current_line = 0
            /\ gpu'.mode = 0
            /\ gpu'.scanline_counter = 0
            /\ \A r \in ScreenRows : gpu'.screen_data[r] = 255
            /\ gpu'.vblank
       /\ (obs'.op = "tick" /\ ~Lcdc_bit7(gpu)) =>
            /\ gpu'.current_line = gpu.current_line
            /\ gpu'.mode = gpu.mode
            /\ gpu'.scanline_counter = gpu.scanline_counter
            /\ intref'.interrupt_flag = intref.interrupt_flag]_vars

\* a tick was made with the display off, after a frame had been drawn and
\* the display switched off again
C9_Witness ==
    /\ obs.op = "tick" /\ ~Lcdc_bit7(gpu)
    /\ gpu.scanline_counter = 0 /\ gpu.vblank
    /\ intref.interrupt_flag = 3


-----------------------------------------------------------------------------
(* Instruction timing of the monolithic CPU: the opcode tables of          *)
(* Instructions::from_byte and the cycle count decode_instruction returns. *)
(* An instruction is the sequence of its variant name and operand names.   *)

\* Instructions::from_byte_prefixed; entry byte + 1 is the instruction of byte
Instructions_from_byte_prefixed ==
    <<
       <<"RLC", "B">>, <<"RLC", "C">>, <<"RLC", "D">>, <<"RLC", "E">>,
       <<"RLC", "H">>, <<"RLC", "L">>, <<"RLC", "HLAddr">>, <<"RLC", "A">>,
       <<"RRC", "B">>, <<"RRC", "C">>, <<"RRC", "D">>, <<"RRC", "E">>,
       <<"RRC", "H">>, <<"RRC", "L">>, <<"RRC", "HLAddr">>, <<"RRC", "A">>,
       <<"RL", "B">>, <<"RL", "C">>, <<"RL", "D">>, <<"RL", "E">>,
       <<"RL", "H">>, <<"RL", "L">>, <<"RL", "HLAddr">>, <<"RL", "A">>,
       <<"RR", "B">>, <<"RR", "C">>, <<"RR", "D">>, <<"RR", "E">>,
       <<"RR", "H">>, <<"RR", "L">>, <<"RR", "HLAddr">>, <<"RR", "A">>,
       <<"SLA", "B">>, <<"SLA", "C">>, <<"SLA", "D">>, <<"SLA", "E">>,
       <<"SLA", "H">>, <<"SLA", "L">>, <<"SLA", "HLAddr">>, <<"SLA", "A">>,
       <<"SRA", "B">>, <<"SRA", "C">>, <<"SRA", "D">>, <<"SRA", "E">>,
       <<"SRA", "H">>, <<"SRA", "L">>, <<"SRA", "HLAddr">>, <<"SRA", "A">>,
       <<"SWAP", "B">>, <<"SWAP", "C">>, <<"SWAP", "D">>, <<"SWAP", "E">>,
       <<"SWAP", "H">>, <<"SWAP", "L">>, <<"SWAP", "HLAddr">>, <<"SWAP", "A">>,
       <<"SRL", "B">>, <<"SRL", "C">>, <<"SRL", "D">>, <<"SRL", "E">>,
       <<"SRL", "H">>, <<"SRL", "L">>, <<"SRL", "HLAddr">>, <<"SRL", "A">>,
       <<"BIT", "0", "B">>, <<"BIT", "0", "C">>, <<"BIT", "0", "D">>, <<"BIT", "0", "E">>,
       <<"BIT", "0", "H">>, <<"BIT", "0", "L">>, <<"BIT", "0", "HLAddr">>, <<"BIT", "0", "A">>,
       <<"BIT", "1", "B">>, <<"BIT", "1", "C">>, <<"BIT", "1", "D">>, <<"BIT", "1", "E">>,
       <<"BIT", "1", "H">>, <<"BIT", "1", "L">>, <<"BIT", "1", "HLAddr">>, <<"BIT", "1", "A">>,
       <<"BIT", "2", "B">>, <<"BIT", "2", "C">>, <<"BIT", "2", "D">>, <<"BIT", "2", "E">>,
       <<"BIT", "2", "H">>, <<"BIT", "2", "L">>, <<"BIT", "2", "HLAddr">>, <<"BIT", "2", "A">>,
       <<"BIT", "3", "B">>, <<"BIT", "3", "C">>, <<"BIT", "3", "D">>, <<"BIT", "3", "E">>,
       <<"BIT", "3", "H">>, <<"BIT", "3", "L">>, <<"BIT", "3", "HLAddr">>, <<"BIT", "3", "A">>,
       <<"BIT", "4", "B">>, <<"BIT", "4", "C">>, <<"BIT", "4", "D">>, <<"BIT", "4", "E">>,
       <<"BIT", "4", "H">>, <<"BIT", "4", "L">>, <<"BIT", "4", "HLAddr">>, <<"BIT", "4", "A">>,
       <<"BIT", "5", "B">>, <<"BIT", "5", "C">>, <<"BIT", "5", "D">>, <<"BIT", "5", "E">>,
       <<"BIT", "5", "H">>, <<"BIT", "5", "L">>, <<"BIT", "5", "HLAddr">>, <<"BIT", "5", "A">>,
       <<"BIT", "6", "B">>, <<"BIT", "6", "C">>, <<"BIT", "6", "D">>, <<"BIT", "6", "E">>,
       <<"BIT", "6", "H">>, <<"BIT", "6", "L">>, <<"BIT", "6", "HLAddr">>, <<"BIT", "6", "A">>,
       <<"BIT", "7", "B">>, <<"BIT", "7", "C">>, <<"BIT", "7", "D">>, <<"BIT", "7", "E">>,
       <<"BIT", "7", "H">>, <<"BIT", "7", "L">>, <<"BIT", "7", "HLAddr">>, <<"BIT", "7", "A">>,
       <<"RES", "0", "B">>, <<"RES", "0", "C">>, <<"RES", "0", "D">>, <<"RES", "0", "E">>,
       <<"RES", "0", "H">>, <<"RES", "0", "L">>, <<"RES", "0", "HLAddr">>, <<"RES", "0", "A">>,
       <<"RES", "1", "B">>, <<"RES", "1", "C">>, <<"RES", "1", "D">>, <<"RES", "1", "E">>,
       <<"RES", "1", "H">>, <<"RES", "1", "L">>, <<"RES", "1", "HLAddr">>, <<"RES", "1", "A">>,
       <<"RES", "2", "B">>, <<"RES", "2", "C">>, <<"RES", "2", "D">>, <<"RES", "2", "E">>,
       <<"RES", "2", "H">>, <<"RES", "2", "L">>, <<"RES", "2", "HLAddr">>, <<"RES", "2", "A">>,
       <<"RES", "3", "B">>, <<"RES", "3", "C">>, <<"RES", "3", "D">>, <<"RES", "3", "E">>,
       <<"RES", "3", "H">>, <<"RES", "3", "L">>, <<"RES", "3", "HLAddr">>, <<"RES", "3", "A">>,
       <<"RES", "4", "B">>, <<"RES", "4", "C">>, <<"RES", "4", "D">>, <<"RES", "4", "E">>,
       <<"RES", "4", "H">>, <<"RES", "4", "L">>, <<"RES", "4", "HLAddr">>, <<"RES", "4", "A">>,
       <<"RES", "5", "B">>, <<"RES", "5", "C">>, <<"RES", "5", "D">>, <<"RES", "5", "E">>,
       <<"RES", "5", "H">>, <<"RES", "5", "L">>, <<"RES", "5", "HLAddr">>, <<"RES", "5", "A">>,
       <<"RES", "6", "B">>, <<"RES", "6", "C">>, <<"RES", "6", "D">>, <<"RES", "6", "E">>,
       <<"RES", "6", "H">>, <<"RES", "6", "L">>, <<"RES", "6", "HLAddr">>, <<"RES", "6", "A">>,
       <<"RES", "7", "B">>, <<"RES", "7", "C">>, <<"RES", "7", "D">>, <<"RES", "7", "E">>,
       <<"RES", "7", "H">>, <<"RES", "7", "L">>, <<"RES", "7", "HLAddr">>, <<"RES", "7", "A">>,
       <<"SET", "0", "B">>, <<"SET", "0", "C">>, <<"SET", "0", "D">>, <<"SET", "0", "E">>,
       <<"SET", "0", "H">>, <<"SET", "0", "L">>, <<"SET", "0", "HLAddr">>, <<"SET", "0", "A">>,
       <<"SET", "1", "B">>, <<"SET", "1", "C">>, <<"SET", "1", "D">>, <<"SET", "1", "E">>,
       <<"SET", "1", "H">>, <<"SET", "1", "L">>, <<"SET", "1", "HLAddr">>, <<"SET", "1", "A">>,
       <<"SET", "2", "B">>, <<"SET", "2", "C">>, <<"SET", "2", "D">>, <<"SET", "2", "E">>,
       <<"SET", "2", "H">>, <<"SET", "2", "L">>, <<"SET", "2", "HLAddr">>, <<"SET", "2", "A">>,
       <<"SET", "3", "B">>, <<"SET", "3", "C">>, <<"SET", "3", "D">>, <<"SET", "3", "E">>,
       <<"SET", "3", "H">>, <<"SET", "3", "L">>, <<"SET", "3", "HLAddr">>, <<"SET", "3", "A">>,
       <<"SET", "4", "B">>, <<"SET", "4", "C">>, <<"SET", "4", "D">>, <<"SET", "4", "E">>,
       <<"SET", "4", "H">>, <<"SET", "4", "L">>, <<"SET", "4", "HLAddr">>, <<"SET", "4", "A">>,
       <<"SET", "5", "B">>, <<"SET", "5", "C">>, <<"SET", "5", "D">>, <<"SET", "5", "E">>,
       <<"SET", "5", "H">>, <<"SET", "5", "L">>, <<"SET", "5", "HLAddr">>, <<"SET", "5", "A">>,
       <<"SET", "6", "B">>, <<"SET", "6", "C">>, <<"SET", "6", "D">>, <<"SET", "6", "E">>,
       <<"SET", "6", "H">>, <<"SET", "6", "L">>, <<"SET", "6", "HLAddr">>, <<"SET", "6", "A">>,
       <<"SET", "7", "B">>, <<"SET", "7", "C">>, <<"SET", "7", "D">>, <<"SET", "7", "E">>,
       <<"SET", "7", "H">>, <<"SET", "7", "L">>, <<"SET", "7", "HLAddr">>, <<"SET", "7", "A">>
    >>

\* Instructions::from_byte_not_prefixed; <<"None">> where the match falls
\* through to `_ => None`
Instructions_from_byte_not_prefixed ==
    <<
       <<"NOP">>, <<"LD", "Word", "BC", "D16">>, <<"LD", "Byte", "BC", "A">>, <<"INC", "BC">>,
       <<"INC", "B">>, <<"DEC", "B">>, <<"LD", "Byte", "B", "D8">>, <<"RLCA">>,
       <<"LD", "Word", "A16", "SP">>, <<"ADD16", "BC">>, <<"LD", "Byte", "A", "BC">>, <<"DEC", "BC">>,
       <<"INC", "C">>, <<"DEC", "C">>, <<"LD", "Byte", "C", "D8">>, <<"RRCA">>,
       <<"None">>, <<"LD", "Word", "DE", "D16">>, <<"LD", "Byte", "DE", "A">>, <<"INC", "DE">>,
       <<"INC", "D">>, <<"DEC", "D">>, <<"LD", "Byte", "D", "D8">>, <<"RLA">>,
       <<"JR", "Always">>, <<"ADD16", "DE">>, <<"LD", "Byte", "A", "DE">>, <<"DEC", "DE">>,
       <<"INC", "E">>, <<"DEC", "E">>, <<"LD", "Byte", "E", "D8">>, <<"RRA">>,
       <<"JR", "NotZero">>, <<"LD", "Word", "HL", "D16">>, <<"LD", "Byte", "HLI", "A">>, <<"INC", "HL">>,
       <<"INC", "H">>, <<"DEC", "H">>, <<"LD", "Byte", "H", "D8">>, <<"DAA">>,
       <<"JR", "Zero">>, <<"ADD16", "HL">>, <<"LD", "Byte", "A", "HLI">>, <<"DEC", "HL">>,
       <<"INC", "L">>, <<"DEC", "L">>, <<"LD", "Byte", "L", "D8">>, <<"CPL">>,
       <<"JR", "NotCarry">>, <<"LD", "Word", "SP", "D16">>, <<"LD", "Byte", "HLD", "A">>, <<"INC", "SP">>,
       <<"INC", "HLAddr">>, <<"DEC", "HLAddr">>, <<"LD", "Byte", "HL", "D8">>, <<"SCF">>,
       <<"JR", "Carry">>, <<"ADD16", "SP">>, <<"LD", "Byte", "A", "HLD">>, <<"DEC", "SP">>,
       <<"INC", "A">>, <<"DEC", "A">>, <<"LD", "Byte", "A", "D8">>, <<"CCF">>,
       <<"LD", "Byte", "B", "B">>, <<"LD", "Byte", "B", "C">>, <<"LD", "Byte", "B", "D">>, <<"LD", "Byte", "B", "E">>,
       <<"LD", "Byte", "B", "H">>, <<"LD", "Byte", "B", "L">>, <<"LD", "Byte", "B", "HL">>, <<"LD", "Byte", "B", "A">>,
       <<"LD", "Byte", "C", "B">>, <<"LD", "Byte", "C", "C">>, <<"LD", "Byte", "C", "D">>, <<"LD", "Byte", "C", "E">>,
       <<"LD", "Byte", "C", "H">>, <<"LD", "Byte", "C", "L">>, <<"LD", "Byte", "C", "HL">>, <<"LD", "Byte", "C", "A">>,
       <<"LD", "Byte", "D", "B">>, <<"LD", "Byte", "D", "C">>, <<"LD", "Byte", "D", "D">>, <<"LD", "Byte", "D", "E">>,
       <<"LD", "Byte", "D", "H">>, <<"LD", "Byte", "D", "L">>, <<"LD", "Byte", "D", "HL">>, <<"LD", "Byte", "D", "A">>,
       <<"LD", "Byte", "E", "B">>, <<"LD", "Byte", "E", "C">>, <<"LD", "Byte", "E", "D">>, <<"LD", "Byte", "E", "E">>,
       <<"LD", "Byte", "E", "H">>, <<"LD", "Byte", "E", "L">>, <<"LD", "Byte", "E", "HL">>, <<"LD", "Byte", "E", "A">>,
       <<"LD", "Byte", "H", "B">>, <<"LD", "Byte", "H", "C">>, <<"LD", "Byte", "H", "D">>, <<"LD", "Byte", "H", "E">>,
       <<"LD", "Byte", "H", "H">>, <<"LD", "Byte", "H", "L">>, <<"LD", "Byte", "H", "HL">>, <<"LD", "Byte", "H", "A">>,
       <<"LD", "Byte", "L", "B">>, <<"LD", "Byte", "L", "C">>, <<"LD", "Byte", "L", "D">>, <<"LD", "Byte", "L", "E">>,
       <<"LD", "Byte", "L", "H">>, <<"LD", "Byte", "L", "L">>, <<"LD", "Byte", "L", "HL">>, <<"LD", "Byte", "L", "A">>,
       <<"LD", "Byte", "HL", "B">>, <<"LD", "Byte", "HL", "C">>, <<"LD", "Byte", "HL", "D">>, <<"LD", "Byte", "HL", "E">>,
       <<"LD", "Byte", "HL", "H">>, <<"LD", "Byte", "HL", "L">>, <<"HALT">>, <<"LD", "Byte", "HL", "A">>,
       <<"LD", "Byte", "A", "B">>, <<"LD", "Byte", "A", "C">>, <<"LD", "Byte", "A", "D">>, <<"LD", "Byte", "A", "E">>,
       <<"LD", "Byte", "A", "H">>, <<"LD", "Byte", "A", "L">>, <<"LD", "Byte", "A", "HL">>, <<"LD", "Byte", "A", "A">>,
       <<"ADD", "A", "B">>, <<"ADD", "A", "C">>, <<"ADD", "A", "D">>, <<"ADD", "A", "E">>,
       <<"ADD", "A", "H">>, <<"ADD", "A", "L">>, <<"ADD", "A", "HLAddr">>, <<"ADD", "A", "A">>,
       <<"ADC", "A", "B">>, <<"ADC", "A", "C">>, <<"ADC", "A", "D">>, <<"ADC", "A", "E">>,
       <<"ADC", "A", "H">>, <<"ADC", "A", "L">>, <<"ADC", "A", "HLAddr">>, <<"ADC", "A", "A">>,
       <<"SUB", "A", "B">>, <<"SUB", "A", "C">>, <<"SUB", "A", "D">>, <<"SUB", "A", "E">>,
       <<"SUB", "A", "H">>, <<"SUB", "A", "L">>, <<"SUB", "A", "HLAddr">>, <<"SUB", "A", "A">>,
       <<"SBC", "A", "B">>, <<"SBC", "A", "C">>, <<"SBC", "A", "D">>, <<"SBC", "A", "E">>,
       <<"SBC", "A", "H">>, <<"SBC", "A", "L">>, <<"SBC", "A", "HLAddr">>, <<"SBC", "A", "A">>,
       <<"AND", "A", "B">>, <<"AND", "A", "C">>, <<"AND", "A", "D">>, <<"AND", "A", "E">>,
       <<"AND", "A", "H">>, <<"AND", "A", "L">>, <<"AND", "A", "HLAddr">>, <<"AND", "A", "A">>,
       <<"XOR", "A", "B">>, <<"XOR", "A", "C">>, <<"XOR", "A", "D">>, <<"XOR", "A", "E">>,
       <<"XOR", "A", "H">>, <<"XOR", "A", "L">>, <<"XOR", "A", "HLAddr">>, <<"XOR", "A", "A">>,
       <<"OR", "A", "B">>, <<"OR", "A", "C">>, <<"OR", "A", "D">>, <<"OR", "A", "E">>,
       <<"OR", "A", "H">>, <<"OR", "A", "L">>, <<"OR", "A", "HLAddr">>, <<"OR", "A", "A">>,
       <<"CP", "A", "B">>, <<"CP", "A", "C">>, <<"CP", "A", "D">>, <<"CP", "A", "E">>,
       <<"CP", "A", "H">>, <<"CP", "A", "L">>, <<"CP", "A", "HLAddr">>, <<"CP", "A", "A">>,
       <<"RET", "NotZero">>, <<"POP", "BC">>, <<"JP", "NotZero">>, <<"JP", "Always">>,
       <<"CALL", "NotZero">>, <<"PUSH", "BC">>, <<"ADD", "A", "U8">>, <<"RST", "H00">>,
       <<"RET", "Zero">>, <<"RET", "Always">>, <<"JP", "Zero">>, <<"None">>,
       <<"CALL", "Zero">>, <<"CALL", "Always">>, <<"ADC", "A", "U8">>, <<"RST", "H08">>,
       <<"RET", "NotCarry">>, <<"POP", "DE">>, <<"JP", "NotCarry">>, <<"None">>,
       <<"CALL", "NotCarry">>, <<"PUSH", "DE">>, <<"SUB", "A", "U8">>, <<"RST", "H10">>,
       <<"RET", "Carry">>, <<"RETI">>, <<"JP", "Carry">>, <<"None">>,
       <<"CALL", "Carry">>, <<"None">>, <<"SBC", "A", "U8">>, <<"RST", "H18">>,
       <<"LDH", "Other", "A8", "A">>, <<"POP", "HL">>, <<"LDH", "Other", "CAddress", "A">>, <<"None">>,
       <<"None">>, <<"PUSH", "HL">>, <<"AND", "A", "U8">>, <<"RST", "H20">>,
       <<"ADD", "SP", "I8">>, <<"JPHL">>, <<"LD", "Byte", "A16", "A">>, <<"None">>,
       <<"None">>, <<"None">>, <<"XOR", "A", "U8">>, <<"RST", "H28">>,
       <<"LDH", "Other", "A", "A8">>, <<"POP", "AF">>, <<"LD", "Other", "A", "CAddress">>, <<"DI">>,
       <<"None">>, <<"PUSH", "AF">>, <<"OR", "A", "U8">>, <<"RST", "H30">>,
       <<"LD", "Word", "HL", "SPr8">>, <<"LD", "Word", "SP", "HL">>, <<"LD", "Byte", "A", "A16">>, <<"EI">>,
       <<"None">>, <<"None">>, <<"CP", "A", "U8">>, <<"RST", "H38">>
    >>

\* Instructions::from_byte
Instructions_from_byte(byte, prefixed) ==
    IF prefixed THEN Instructions_from_byte_prefixed[byte + 1]
    ELSE Instructions_from_byte_not_prefixed[byte + 1]


\* the registers an ArithmeticSource names
ByteRegisters == {"A", "B", "C", "D", "E", "H", "L"}

\* the outcome of a decode: a cycle count, or a panic
Returns(c) == [panics |-> FALSE, cycles |-> c]
Panics == [panics |-> TRUE, cycles |-> 0]

\* decode_instruction: `let jump_condition = match test { ... }`
CPU_jump_condition(test, zero, carry) ==
    CASE test = "NotZero" -> ~zero
      [] test = "Zero" -> zero
      [] test = "Carry" -> carry
      [] test = "NotCarry" -> ~carry
      [] test = "Always" -> TRUE

\* CPU::jump, cycle count
CPU_jump(should_jump) == IF should_jump THEN 16 ELSE 12

\* CPU::jump_relative, cycle count
CPU_jump_relative(should_jump) == IF should_jump THEN 12 ELSE 8

\* a call that counts machine cycles where every other arm counts clock cycles
CPU_call_machine_cycles(should_jump) == IF should_jump THEN 6 ELSE 3

\* CPU::call, cycle count
CPU_call(should_jump) == IF should_jump THEN 24 ELSE 12

\* CPU::return_, cycle count
CPU_return_(should_jump) == IF should_jump THEN 20 ELSE 8

\* decode_instruction, the arms of the rotates and shifts RLC, RRC, RL, RR,
\* SLA, SRA, SWAP, SRL and of BIT, RES, SET
CPU_cycles_cb(source) ==
    IF source = "HLAddr" THEN Returns(16)
    ELSE IF source \in ByteRegisters THEN Returns(8)
    ELSE Panics

\* decode_instruction, the arms CP, OR, XOR, AND, SUB, SBC, ADC
CPU_cycles_alu(target, source) ==
    IF source = "I8" THEN Panics
    ELSE IF target # "A" THEN Panics
    ELSE IF source = "U8" THEN Returns(8)
    ELSE IF source = "HLAddr" THEN Returns(8)
    ELSE Returns(4)

\* decode_instruction, Instructions::ADD
CPU_cycles_add(target, source) ==
    IF source = "I8" THEN Returns(16)
    ELSE IF target # "A" THEN Panics
    ELSE IF source = "U8" THEN Returns(8)
    ELSE IF source = "HLAddr" THEN Returns(8)
    ELSE Returns(4)

\* decode_instruction, Instructions::LD(LoadType::Byte(target, source))
CPU_cycles_ld_byte(target, source) ==
    IF target = "A16" THEN Returns(16)
    ELSE IF source = "D8" THEN (IF target = "HL" THEN Returns(12) ELSE Returns(8))
    ELSE IF source = "HL" THEN Returns(8)
    ELSE IF target \in {"HL", "HLD", "HLI"} THEN Returns(8)
    ELSE IF target \in {"BC", "DE"} THEN Returns(8)
    ELSE IF source \in {"BC", "DE", "HLD", "HLI"} THEN Returns(8)
    ELSE IF source = "A16" THEN Returns(16)
    ELSE Returns(4)

\* decode_instruction, Instructions::LD(LoadType::Word(target, source))
CPU_cycles_ld_word(source) ==
    CASE source = "HL" -> Returns(8)
      [] source = "SPr8" -> Returns(12)
      [] source = "D16" -> Returns(12)
      [] source = "SP" -> Returns(20)

\* decode_instruction, Instructions::LDH(LoadType::Other(target, source))
CPU_cycles_ldh(target, source) ==
    IF target = "A" /\ source = "A8" THEN Returns(12)
    ELSE IF target = "A8" THEN Returns(12)
    ELSE Returns(8)

\* decode_instruction, Instructions::DEC
CPU_cycles_dec(target) ==
    IF target \in {"HL", "BC", "DE", "SP"} THEN Returns(8) ELSE Returns(4)

\* decode_instruction, Instructions::INC
CPU_cycles_inc(target) ==
    IF target \in {"HL", "BC", "DE", "SP"} THEN Returns(8)
    ELSE IF target = "HLAddr" THEN Returns(12)
    ELSE Returns(4)

\* decode_instruction, Instructions::RET
CPU_cycles_ret(test, zero, carry) ==
    IF test = "Always"
    THEN Returns(CPU_return_(CPU_jump_condition(test, zero, carry)) - 4)
    ELSE Returns(CPU_return_(CPU_jump_condition(test, zero, carry)))

\* CPU::decode_instruction(instruction): the outcome for instruction i with
\* the flags zero and carry, on a CPU that is halted or not
CPU_decode_instruction(i, zero, carry, halted) ==
    LET k == i[1] IN
    IF halted THEN Returns(4)
    ELSE CASE k \in {"DAA", "DI", "EI", "HALT", "RLCA", "RLA", "CCF", "CPL",
                     "SCF", "RRCA", "RRA", "JPHL", "NOP"} -> Returns(4)
           [] k = "RETI" -> Returns(16)
           [] k = "RST" -> Returns(16)
           [] k = "CALL" -> Returns(CPU_call(CPU_jump_condition(i[2], zero, carry)))
           [] k \in {"RLC", "RRC", "RL", "RR", "SLA", "SRA", "SWAP", "SRL"} -> CPU_cycles_cb(i[2])
           [] k \in {"BIT", "RES", "SET"} -> CPU_cycles_cb(i[3])
           [] k = "RET" -> CPU_cycles_ret(i[2], zero, carry)
           [] k = "JR" -> Returns(CPU_jump_relative(CPU_jump_condition(i[2], zero, carry)))
           [] k = "JP" -> Returns(CPU_jump(CPU_jump_condition(i[2], zero, carry)))
           [] k = "DEC" -> CPU_cycles_dec(i[2])
           [] k = "INC" -> CPU_cycles_inc(i[2])
           [] k = "LDH" -> IF i[2] = "Other" THEN CPU_cycles_ldh(i[3], i[4]) ELSE Panics
           [] k = "LD" -> IF i[2] = "Word" THEN CPU_cycles_ld_word(i[4])
                          ELSE IF i[2] = "Byte" THEN CPU_cycles_ld_byte(i[3], i[4])
                          ELSE Panics
           [] k = "PUSH" -> Returns(16)
           [] k = "POP" -> Returns(12)
           [] k \in {"CP", "OR", "XOR", "AND", "SUB", "SBC", "ADC"} -> CPU_cycles_alu(i[2], i[3])
           [] k = "ADD16" -> Returns(8)
           [] k = "ADD" -> CPU_cycles_add(i[2], i[3])

\* CPU::execute_instruction: decode the byte, panic on an unknown opcode
CPU_execute_instruction(byte, prefixed, zero, carry, halted) ==
    LET i == Instructions_from_byte(byte, prefixed) IN
    IF i = <<"None">> THEN Panics
    ELSE CPU_decode_instruction(i, zero, carry, halted)

-----------------------------------------------------------------------------
(* SpecCycles: execute_instruction probed on every opcode byte, prefixed   *)
(* or not, in every state of the zero and carry flags, halted or not.      *)

Opcodes == 0 .. 255

\* the opcode byte at pc (after a 0xCB prefix or not), the flags and the
\* halted state of the CPU about to execute
InitCycles ==
    /\ InitCPUAt(<<0, 456>>)
    /\ gpu = GPU_new
    /\ intref = Interrupt_new
    /\ obs = ObsInit
    /\ ComponentsAtRest
    /\ \E byte \in Opcodes, prefixed \in BOOLEAN, zero \in BOOLEAN,
          carry \in BOOLEAN, halted \in BOOLEAN :
         probe = [ProbeIdle EXCEPT !.prefixed = prefixed, !.opcode = byte,
                                   !.zero = zero, !.carry = carry, !.halted = halted]

ProbeExecute ==
    /\ ~probe.decoded
    /\ LET r == CPU_execute_instruction(probe.opcode, probe.prefixed,
                                        probe.zero, probe.carry, probe.halted)
       IN probe' = [probe EXCEPT !.decoded = TRUE, !.panics = r.panics,
                                 !.cycles = r.cycles]
    /\ UNCHANGED <<pc, sp, ime, is_halted, reg_a, bus, phase, cycles, steps, fetched>>
    /\ UNCHANGED <<gpu, intref, obs, timer, cart, mem, regs>>

NextCycles == ProbeExecute

SpecCycles == InitCycles /\ [][NextCycles]_vars

-----------------------------------------------------------------------------
(* SpecTimer: the stand-alone timer driven by update_timers and by the bus *)
(* writes to DIV, TIMA, TMA, TAC and IF, from the state Timer::new builds. *)

\* bus operations and ticks explored from Timer::new
MaxTimerOps == 5

\* observations of a timer run: the last operation, the interrupt flag
\* before it and what the TIMA loop of the last tick did
TimerObsInit ==
    [op |-> "init", ops |-> 0, address |-> 0, value |-> 0, if_before |-> 0,
     from_ff |-> 0, last_from_ff |-> FALSE, before |-> Timer_new, total |-> 0]

InitTimer ==
    /\ InitCPUAt(<<0, 456>>)
    /\ gpu = GPU_new
    /\ intref = Interrupt_new
    /\ probe = ProbeIdle
    /\ ComponentsAtRest
    /\ obs = TimerObsInit

\* cycle counts of one instruction handed to update_timers
TimerTicks == {4, 12, 24}

\* update_timers(c) and the interrupt request it makes
TimerTick ==
    /\ obs.ops < MaxTimerOps
    /\ \E c \in TimerTicks :
         LET r == Timer_update_timers(timer, c)
         IN /\ timer' = r.timer
            /\ intref' = Interrupt_after_timer(intref, r.requests)
            /\ obs' = [obs EXCEPT !.op = "tick", !.ops = @ + 1, !.value = c,
                                  !.if_before = intref.interrupt_flag,
                                  !.from_ff = r.from_ff,
                                  !.last_from_ff = r.last_from_ff,
                                  !.before = timer]
    /\ UNCHANGED <<pc, sp, ime, is_halted, reg_a, bus, phase, cycles, steps, fetched, probe>>
    /\ UNCHANGED <<gpu, cart, mem, regs>>

\* write_byte(0xFF04, v)
TimerWriteDIV ==
    /\ obs.ops < MaxTimerOps
    /\ \E v \in {0, 171} :
         /\ timer' = MemoryBus_write_timer(timer, 65284, v)
         /\ obs' = [obs EXCEPT !.op = "write", !.ops = @ + 1, !.address = 65284,
                               !.value = v, !.if_before = intref.interrupt_flag,
                               !.before = timer]
    /\ UNCHANGED <<pc, sp, ime, is_halted, reg_a, bus, phase, cycles, steps, fetched, probe>>
    /\ UNCHANGED <<gpu, intref, cart, mem, regs>>

\* write_byte to TIMA (just below overflow), TMA (zero, mid, top) and TAC
\* (stopped; running at 16, 64 and 1024 cycles per increment)
TimerWriteRegister ==
    /\ obs.ops < MaxTimerOps
    /\ \E w \in {<<65285, 254>>, <<65285, 255>>,
                 <<65286, 0>>, <<65286, 128>>, <<65286, 255>>,
                 <<65287, 0>>, <<65287, 4>>, <<65287, 5>>, <<65287, 6>>} :
         /\ timer' = MemoryBus_write_timer(timer, w[1], w[2])
         /\ obs' = [obs EXCEPT !.op = "write", !.ops = @ + 1, !.address = w[1],
                               !.value = w[2], !.if_before = intref.interrupt_flag,
                               !.before = timer]
    /\ UNCHANGED <<pc, sp, ime, is_halted, reg_a, bus, phase, cycles, steps, fetched, probe>>
    /\ UNCHANGED <<gpu, intref, cart, mem, regs>>

\* write_byte(0xFF0F, 0): the program acknowledges the requests
TimerWriteIF ==
    /\ obs.ops < MaxTimerOps
    /\ intref' = [intref EXCEPT !.interrupt_flag = 0]
    /\ obs' = [obs EXCEPT !.op = "if", !.ops = @ + 1, !.address = 65295,
                          !.value = 0, !.if_before = intref.interrupt_flag,
                          !.before = timer]
    /\ UNCHANGED <<pc, sp, ime, is_halted, reg_a, bus, phase, cycles, steps, fetched, probe>>
    /\ UNCHANGED <<gpu, timer, cart, mem, regs>>

NextTimer == TimerTick \/ TimerWriteDIV \/ TimerWriteRegister \/ TimerWriteIF

SpecTimer == InitTimer /\ [][NextTimer]_vars

\* C11: after a tick of the enabled timer in which TIMA was incremented from
\* 0xFF, IF bit 2 is set, TIMA is 0x00 only if TMA is 0x00, and TIMA equals
\* TMA when that increment was the tick's last; a tick without such an
\* increment and a write to a timer register leave IF as it was.
C11_TimaOverflow ==
    /\ (obs.op = "tick" /\ obs.from_ff > 0) =>
          /\ obs.before.clock_enabled
          /\ BitAnd(intref.interrupt_flag, 4) = 4
          /\ intref.interrupt_flag = BitOr(obs.if_before, 4)
          /\ (timer.tima = 0 => timer.tma = 0)
          /\ (obs.last_from_ff => timer.tima = timer.tma)
    /\ (obs.op = "tick" /\ obs.from_ff = 0) => intref.interrupt_flag = obs.if_before
    /\ obs.op = "write" => intref.interrupt_flag = obs.if_before

\* a tick took TIMA from 0xFF to a non-zero TMA and raised the request,
\* the flag having been clear before
C11_Witness ==
    /\ obs.op = "tick" /\ obs.from_ff > 0 /\ obs.last_from_ff
    /\ obs.if_before = 0 /\ intref.interrupt_flag = 4
    /\ timer.tma = 128 /\ timer.tima = 128

-----------------------------------------------------------------------------
(* SpecTimerWrite: one write of any byte to DIV, in timer states a run can *)
(* be in: after update_timers the divider accumulator lies in 1 .. 256 and *)
(* the TIMA accumulator below the period.                                  *)

InitTimerWrite ==
    /\ InitCPUAt(<<0, 456>>)
    /\ gpu = GPU_new
    /\ intref = Interrupt_new
    /\ probe = ProbeIdle
    /\ cart = CartAtRest
    /\ mem = MemAtRest
    /\ regs = RegsAtRest
    /\ obs = TimerObsInit
    /\ \E tima \in {0, 1, 255}, tma \in {0, 128}, div \in {0, 1, 200, 255},
          dc \in {4, 256}, cc \in {0, 12}, speed \in {1024, 16, 64, 256},
          enabled \in BOOLEAN :
         timer = [tima |-> tima, clock_counter |-> cc, divider_register |-> div,
                  divider_counter |-> dc, tma |-> tma,
                  input_clock_speed |-> speed, clock_enabled |-> enabled]

\* write_byte(0xFF04, v) for every byte v
TimerWriteAnyDIV ==
    /\ obs.op = "init"
    /\ \E v \in 0 .. 255 :
         /\ timer' = MemoryBus_write_timer(timer, 65284, v)
         /\ obs' = [obs EXCEPT !.op = "write", !.ops = @ + 1, !.address = 65284,
                               !.value = v, !.if_before = intref.interrupt_flag,
                               !.before = timer]
    /\ UNCHANGED <<pc, sp, ime, is_halted, reg_a, bus, phase, cycles, steps, fetched, probe>>
    /\ UNCHANGED <<gpu, intref, cart, mem, regs>>

NextTimerWrite == TimerWriteAnyDIV

SpecTimerWrite == InitTimerWrite /\ [][NextTimerWrite]_vars

\* C13: a write of any byte to 0xFF04 leaves DIV zero, read back as zero,
\* and TIMA, TMA and TAC (enable and period) as they were.
C13_WriteDivZeroes ==
    (obs.op = "write" /\ obs.address = 65284) =>
        /\ timer.divider_register = 0
        /\ MemoryBus_read_timer(timer, 65284) = 0
        /\ timer.tima = obs.before.tima
        /\ timer.tma = obs.before.tma
        /\ timer.clock_enabled = obs.before.clock_enabled
        /\ timer.input_clock_speed = obs.before.input_clock_speed
        /\ MemoryBus_read_timer(timer, 65287) = MemoryBus_read_timer(obs.before, 65287)

\* a non-zero byte was written to DIV while DIV was non-zero and the timer
\* was running with a non-zero TIMA
C13_Witness ==
    /\ obs.op = "write" /\ obs.address = 65284 /\ obs.value = 171
    /\ obs.before.divider_register = 200
    /\ obs.before.clock_enabled /\ obs.before.tima = 255
    /\ timer.divider_register = 0

-----------------------------------------------------------------------------
(* SpecDiv: the divider alone, ticked from Timer::new by instruction-sized *)
(* cycle counts.                                                           *)

\* cycles ticked in a divider run
MaxDivCycles == 600

DivTick ==
    /\ \E c \in InstructionCycles :
         /\ obs.total + c <= MaxDivCycles
         /\ LET r == Timer_update_timers(timer, c)
            IN /\ timer' = r.timer
               /\ intref' = Interrupt_after_timer(intref, r.requests)
         /\ obs' = [obs EXCEPT !.op = "tick", !.value = c, !.total = @ + c]
    /\ UNCHANGED <<pc, sp, ime, is_halted, reg_a, bus, phase, cycles, steps, fetched, probe>>
    /\ UNCHANGED <<gpu, cart, mem, regs>>

NextDiv == DivTick

SpecDiv == InitTimer /\ [][NextDiv]_vars

\* C12: from DIV = 0 and an empty divider accumulator, after ticks summing to
\* N cycles in any split, DIV = floor(N / 256) mod 256.
C12_DivRate ==
    timer.divider_register = (obs.total \div 256) % 256

-----------------------------------------------------------------------------
(* SpecCart: cartridges of every variant driven through read_byte and      *)
(* write_byte, from the state Cartridge::new and determine_mbc build.      *)

\* reads and writes explored per cartridge
MaxCartOps == 3

\* (variant, ROM bytes, external RAM bytes) of the modelled cartridges:
\* header bytes 0x147 / 0x148 / 0x149 = 00/00/00, 01/04/00, 03/04/02, 03/06/03,
\* 05/03/00, 0F/06/00, 13/06/03, 1B/08/03, 1B/08/04
CartridgeKinds ==
    {<<"None", 32768, 0>>,
     <<"MBC1", 524288, 0>>, <<"MBC1", 524288, 8192>>, <<"MBC1", 2097152, 32768>>,
     <<"MBC2", 262144, 512>>,
     <<"MBC3", 2097152, 0>>, <<"MBC3", 2097152, 32768>>,
     <<"MBC5", 8388608, 32768>>, <<"MBC5", 8388608, 131072>>}

\* addresses written: the four MBC register areas (0x0000 and 0x0100 differ in
\* A8) and external RAM at its ends and around 0xA200
CartWriteAddrs == {0, 256, 8448, 12288, 16384, 24576, 40960, 41471, 41472, 49151}

\* addresses read: fixed and switchable ROM, external RAM
CartReadAddrs == {0, 16384, 32767, 40960, 41471, 41472, 49151}

\* bytes written: bank numbers and mode values, RAM enable (0x0A, 0x5A), and
\* a byte with both nibbles set
CartValues == {0, 1, 2, 4, 8, 10, 90}

\* seconds since the clock's epoch at an RTC latch: 1 day 1 h 1 min 1 s
ClockReadings == {90061}

CartObsInit ==
    [op |-> "init", ops |-> 0, address |-> 0, value |-> 0,
     result |-> Byte(0), before |-> CartAtRest]

InitCart ==
    /\ InitCPUAt(<<0, 456>>)
    /\ gpu = GPU_new
    /\ intref = Interrupt_new
    /\ probe = ProbeIdle
    /\ timer = Timer_new
    /\ mem = MemAtRest
    /\ regs = RegsAtRest
    /\ obs = CartObsInit
    /\ \E k \in CartridgeKinds : cart = Cartridge_new(k[1], k[2], k[3])

\* Cartridge::write_byte(address, value)
CartWrite ==
    /\ obs.ops < MaxCartOps
    /\ ~cart.panicked
    /\ \E address \in CartWriteAddrs, value \in CartValues, d \in ClockReadings :
         /\ cart' = Cartridge_write_byte(cart, address, value, d)
         /\ obs' = [op |-> "write", ops |-> obs.ops + 1, address |-> address,
                    value |-> value, result |-> Byte(0), before |-> cart]
    /\ UNCHANGED <<pc, sp, ime, is_halted, reg_a, bus, phase, cycles, steps, fetched, probe>>
    /\ UNCHANGED <<gpu, intref, timer, mem, regs>>

\* Cartridge::read_byte(address)
CartRead ==
    /\ obs.ops < MaxCartOps
    /\ ~cart.panicked
    /\ \E address \in CartReadAddrs :
         LET r == Cartridge_read_byte(cart, address)
         IN /\ cart' = [cart EXCEPT !.panicked = r.panics]
            /\ obs' = [op |-> "read", ops |-> obs.ops + 1, address |-> address,
                       value |-> 0, result |-> r, before |-> cart]
    /\ UNCHANGED <<pc, sp, ime, is_halted, reg_a, bus, phase, cycles, steps, fetched, probe>>
    /\ UNCHANGED <<gpu, intref, timer, mem, regs>>

NextCart == CartWrite \/ CartRead

SpecCart == InitCart /\ [][NextCart]_vars

\* C14: on a cartridge with external RAM (MBC1, MBC2, MBC3 with a RAM bank
\* selected, MBC5), in any selectable bank, a write of v to an address of
\* 0xA000 .. 0xBFFF while RAM is enabled completes and a read of that
\* address then returns v.
C14_RamRoundTrip ==
    (/\ obs.op = "write" /\ obs.address \in 40960 .. 49151
     /\ obs.before.mbc # "None" /\ obs.before.ram_len > 0
     /\ obs.before.ram_enabled
     /\ (obs.before.mbc = "MBC3" => obs.before.ram_bank <= 3))
    => /\ ~cart.panicked
       /\ Cartridge_read_byte(cart, obs.address) = Byte(obs.value)

\* C15: while the RAM-enable flag is false a read of 0xA000 .. 0xBFFF returns
\* 0x00 and a write there leaves external RAM as it was; a write to
\* 0x0000 .. 0x1FFF sets the flag exactly when the low nibble written is 0xA,
\* and nothing else changes the flag.
C15_RamGate ==
    /\ (obs.op = "read" /\ obs.address \in 40960 .. 49151 /\ ~obs.before.ram_enabled)
          => obs.result = Byte(0)
    /\ (obs.op = "write" /\ obs.address \in 40960 .. 49151 /\ ~obs.before.ram_enabled)
          => (~cart.panicked /\ cart.game_ram = obs.before.game_ram)
    /\ (obs.op = "write" /\ obs.address <= 8191 /\ BitAnd(obs.value, 15) # 10)
          => ~cart.ram_enabled
    /\ (obs.op # "init" /\ cart.ram_enabled /\ ~obs.before.ram_enabled)
          => (obs.op = "write" /\ obs.address <= 8191 /\ BitAnd(obs.value, 15) = 10)
    /\ (obs.op # "init" /\ ~cart.ram_enabled /\ obs.before.ram_enabled)
          => (obs.op = "write" /\ obs.address <= 8191)

-----------------------------------------------------------------------------
(* The address decoder: reads and writes through MemoryBus of bus.rs.      *)

MaxBusOps == 2

\* the cartridges plugged into the bus
BusCartridges ==
    {<<"None", 32768, 0>>, <<"MBC1", 524288, 8192>>, <<"MBC5", 8388608, 32768>>}

\* addresses accessed: both ends of every range of the decoder, every timer
\* register, the registers of every device, and I/O addresses with no device
BusAddrs ==
    {0, 16384, 24576, 32768, 40959, 40960, 49152, 53248, 57343, 57344, 61440,
     65023, 65024, 65183, 65184, 65279, 65280, 65281, 65282, 65283, 65284,
     65285, 65286, 65287, 65288, 65295, 65296, 65343, 65344, 65345, 65348,
     65350, 65355, 65356, 65357, 65359, 65360, 65361, 65363, 65365, 65366,
     65384, 65385, 65387, 65388, 65392, 65407, 65408, 65534, 65535}

\* bytes written: bank numbers, RAM enable, DMA source pages (0x00, 0x80,
\* 0xFF), bit 7 set and clear
BusValues == {0, 2, 7, 10, 128, 255}

\* the bus the variables hold
TheBus ==
    [mem |-> mem, gpu |-> gpu, timer |-> timer, cart |-> cart, intref |-> intref]

BusObsInit ==
    [op |-> "init", ops |-> 0, address |-> 0, value |-> 0, result |-> Byte(0),
     before |-> [mem |-> MMU_new, gpu |-> GPU_new, timer |-> Timer_new,
                 cart |-> CartAtRest, intref |-> Interrupt_new]]

InitBus ==
    /\ InitCPUAt(<<0, 456>>)
    /\ gpu = GPU_new
    /\ intref = Interrupt_new
    /\ probe = ProbeIdle
    /\ timer = Timer_new
    /\ mem = MMU_new
    /\ regs = RegsAtRest
    /\ obs = BusObsInit
    /\ \E k \in BusCartridges : cart = Cartridge_new(k[1], k[2], k[3])

\* the process is gone once an access panicked
BusRuns == ~mem.panicked /\ ~cart.panicked

\* MemoryBus::write_byte(address, value)
BusWrite ==
    /\ obs.ops < MaxBusOps
    /\ BusRuns
    /\ \E address \in BusAddrs, value \in BusValues, d \in ClockReadings :
         LET b == MemoryBus_write_byte(TheBus, address, value, d)
         IN /\ mem' = b.mem
            /\ gpu' = b.gpu
            /\ timer' = b.timer
            /\ cart' = b.cart
            /\ intref' = b.intref
            /\ obs' = [op |-> "write", ops |-> obs.ops + 1, address |-> address,
                       value |-> value, result |-> Byte(0), before |-> TheBus]
    /\ UNCHANGED <<pc, sp, ime, is_halted, reg_a, bus, phase, cycles, steps, fetched, probe>>
    /\ UNCHANGED regs

\* MemoryBus::read_byte(address)
BusRead ==
    /\ obs.ops < MaxBusOps
    /\ BusRuns
    /\ \E address \in BusAddrs :
         LET r == MemoryBus_read_byte(TheBus, address)
         IN /\ mem' = [mem EXCEPT !.panicked = r.panics]
            /\ obs' = [op |-> "read", ops |-> obs.ops + 1, address |-> address,
                       value |-> 0, result |-> r, before |-> TheBus]
    /\ UNCHANGED <<pc, sp, ime, is_halted, reg_a, bus, phase, cycles, steps, fetched, probe>>
    /\ UNCHANGED <<gpu, intref, timer, cart, regs>>

NextBus == BusWrite \/ BusRead

SpecBus == InitBus /\ [][NextBus]_vars

\* the addresses of 0xFF00 .. 0xFF7F the memory map gives a register
IoRegisters ==
    {65280, 65281, 65282, 65295, 65357, 65359, 65392}
    \cup (65284 .. 65287) \cup (65296 .. 65343) \cup (65344 .. 65355)
    \cup (65361 .. 65365) \cup (65384 .. 65387)

\* addresses with nothing behind them: 0xFEA0 .. 0xFEFF and the I/O
\* addresses without a register
NoDevice == (65184 .. 65279) \cup ((65280 .. 65407) \ IoRegisters)

\* C16: every read returns a byte and every write completes, whatever the
\* address, the value and the state of the bus; a read of 0xFEA0 .. 0xFEFF or
\* of an I/O address without a register returns 0x00 and a write to one
\* changes nothing.
C16_AddressSpaceTotal ==
    obs.op \in {"read", "write"} =>
        /\ ~obs.result.panics
        /\ BusRuns
        /\ (obs.op = "read" /\ obs.address \in NoDevice) => obs.result.value = 0
        /\ (obs.op = "write" /\ obs.address \in NoDevice) => TheBus = obs.before

-----------------------------------------------------------------------------
(* The stack of the monolithic CPU (src/src/system/cpu.rs): push, pop and  *)
(* the instructions that use them, on the record c = [pc, sp, ime, bus].   *)

\* CPU::push(value)
CPU_push(c, value) ==
    LET sp1 == (c.sp - 1) % 65536
        sp2 == (sp1 - 1) % 65536
        b1 == CPU_write_byte(c.bus, sp1, BitAnd(value, 65280) \div 256)
    IN [c EXCEPT !.sp = sp2, !.bus = CPU_write_byte(b1, sp2, BitAnd(value, 255))]

\* CPU::pop(): the machine afterwards and the word returned
CPU_pop(c) ==
    LET lsb == CPU_read_byte(c.bus, c.sp)
        sp1 == (c.sp + 1) % 65536
        msb == CPU_read_byte(c.bus, sp1)
    IN [cpu |-> [c EXCEPT !.sp = (sp1 + 1) % 65536], value |-> msb * 256 + lsb]

\* Instructions::RST(target), with location the address target stands for
CPU_instruction_rst(c, location) ==
    LET new_sp == (c.sp - 2) % 65536
    IN [c EXCEPT !.sp = new_sp,
                 !.bus = CPU_write_word(c.bus, new_sp, (c.pc + 1) % 65536),
                 !.pc = location]

\* CPU::call(true), with a16 the operand read_next_word() returns
CPU_instruction_call(c, a16) ==
    [CPU_push(c, (c.pc + 3) % 65536) EXCEPT !.pc = a16]

\* CPU::return_(true)
CPU_instruction_ret(c) ==
    LET p == CPU_pop(c) IN [p.cpu EXCEPT !.pc = p.value]

\* instructions executed by one run
MaxStackOps == 3

\* operands of LD rr,d16: both nibbles of both bytes set and clear
StackWords == {4660, 4863, 65295, 165, 32768, 65535}

\* operands of LD SP,d16: the top of work RAM and of high RAM
StackTops == {57341, 65534}

\* operands of CALL a16 and the targets of RST
CallTargets == {512}
RstTargets == {8, 56}

StackTargets == {"AF", "BC", "DE", "HL"}

\* the machine and the register file the variables hold
TheCPU == [pc |-> pc, sp |-> sp, ime |-> ime, bus |-> bus]
TheRegs == [a |-> reg_a] @@ regs

StackObsInit ==
    [op |-> "init", ops |-> 0, target |-> "none", value |-> 0, depth |-> 0,
     pc |-> 0, sp |-> 0,
     prev |-> [op |-> "init", target |-> "none", value |-> 0, pc |-> 0, sp |-> 0]]

\* obs after instruction op on target moved word value; pc and sp are those
\* the instruction started with, prev is the instruction before it
StackObs(op, target, value, depth) ==
    [op |-> op, ops |-> obs.ops + 1, target |-> target, value |-> value,
     depth |-> depth, pc |-> pc, sp |-> sp,
     prev |-> [op |-> obs.op, target |-> obs.target, value |-> obs.value,
               pc |-> obs.pc, sp |-> obs.sp]]

InitStack ==
    /\ InitCPUAt(<<0, 456>>)
    /\ gpu = GPU_new
    /\ intref = Interrupt_new
    /\ probe = ProbeIdle
    /\ timer = Timer_new
    /\ cart = CartAtRest
    /\ mem = MemAtRest
    /\ regs = RegsAtRest
    /\ obs = StackObsInit

\* the variables after an instruction left machine c and register file r
StackStep(c, r) ==
    /\ pc' = c.pc
    /\ sp' = c.sp
    /\ bus' = c.bus
    /\ reg_a' = r.a
    /\ regs' = RegistersBesidesA(r)
    /\ UNCHANGED <<ime, is_halted, phase, cycles, steps, fetched, probe>>
    /\ UNCHANGED <<gpu, intref, timer, cart, mem>>

\* Instructions::LD(LoadType::Word(target, D16)), target BC, DE, HL or SP
StackLoadWord ==
    /\ obs.ops < MaxStackOps
    /\ \/ \E target \in {"BC", "DE", "HL"}, value \in StackWords :
            /\ StackStep([TheCPU EXCEPT !.pc = (pc + 3) % 65536],
                         Registers_set(TheRegs, target, value))
            /\ obs' = StackObs("LD", target, value, obs.depth)
       \/ \E value \in StackTops :
            /\ StackStep([TheCPU EXCEPT !.pc = (pc + 3) % 65536, !.sp = value],
                         TheRegs)
            /\ obs' = StackObs("LD", "SP", value, 0)

\* Instructions::PUSH(target)
StackPush ==
    /\ obs.ops < MaxStackOps
    /\ \E target \in StackTargets :
         LET value == Registers_get(TheRegs, target)
             c == CPU_push(TheCPU, value)
         IN /\ StackStep([c EXCEPT !.pc = (pc + 1) % 65536], TheRegs)
            /\ obs' = StackObs("PUSH", target, value, obs.depth + 1)

\* Instructions::POP(target), in programs that pop what they pushed
StackPop ==
    /\ obs.ops < MaxStackOps
    /\ obs.depth > 0
    /\ \E target \in StackTargets :
         LET p == CPU_pop(TheCPU)
         IN /\ StackStep([p.cpu EXCEPT !.pc = (pc + 1) % 65536],
                         Registers_set(TheRegs, target, p.value))
            /\ obs' = StackObs("POP", target, p.value, obs.depth - 1)

\* Instructions::CALL(JumpTest::Always)
StackCall ==
    /\ obs.ops < MaxStackOps
    /\ \E a16 \in CallTargets :
         /\ StackStep(CPU_instruction_call(TheCPU, a16), TheRegs)
         /\ obs' = StackObs("CALL", "PC", (pc + 3) % 65536, obs.depth + 1)

\* Instructions::RST(target)
StackRst ==
    /\ obs.ops < MaxStackOps
    /\ \E location \in RstTargets :
         /\ StackStep(CPU_instruction_rst(TheCPU, location), TheRegs)
         /\ obs' = StackObs("RST", "PC", (pc + 1) % 65536, obs.depth + 1)

\* Instructions::RET(JumpTest::Always), in programs that return from a call
StackRet ==
    /\ obs.ops < MaxStackOps
    /\ obs.depth > 0
    /\ LET c == CPU_instruction_ret(TheCPU)
       IN /\ StackStep(c, TheRegs)
          /\ obs' = StackObs("RET", "PC", c.pc, obs.depth - 1)

NextStack ==
    StackLoadWord \/ StackPush \/ StackPop \/ StackCall \/ StackRst \/ StackRet

SpecStack == InitStack /\ [][NextStack]_vars

\* C17: BC, DE and HL read back the word an instruction set them to, AF reads
\* back the word with the low nibble cleared; the conversion from a byte with
\* a clear low nibble to flags and back is the identity; and in every state
\* the low nibble of F reads zero.
C17_RegisterViews ==
    /\ (obs.op = "LD" /\ obs.target # "SP")
           => Registers_get(TheRegs, obs.target) = obs.value
    /\ obs.op = "POP"
           => Registers_get(TheRegs, obs.target)
                = IF obs.target = "AF" THEN BitAnd(obs.value, 65520) ELSE obs.value
    /\ obs.op = "init"
           => /\ \A v \in 0 .. 65535 :
                   /\ Registers_get_bc(Registers_set_bc(TheRegs, v)) = v
                   /\ Registers_get_de(Registers_set_de(TheRegs, v)) = v
                   /\ Registers_get_hl(Registers_set_hl(TheRegs, v)) = v
                   /\ Registers_get_af(Registers_set_af(TheRegs, v)) = v - (v % 16)
              /\ \A b \in 0 .. 255 :
                   FlagsRegister_to_u8(FlagsRegister_from_u8(b - (b % 16)))
                     = b - (b % 16)
    /\ FlagsRegister_to_u8(TheRegs.f) % 16 = 0
    /\ Registers_get_af(TheRegs) % 16 = 0

\* POP AF took a word with a set low nibble from the stack
C17_Witness ==
    /\ obs.op = "POP" /\ obs.target = "AF"
    /\ obs.value % 16 # 0
    /\ obs.value >= 4096
    /\ Registers_get_af(TheRegs) = obs.value - (obs.value % 16)

\* C20: PUSH moves SP down by 2 and leaves the high byte at SP+1 and the low
\* byte at SP; a POP right after a PUSH gives its pair the word pushed (AF
\* without the low nibble) and SP its old value; a RET right after a CALL or
\* an RST continues at the instruction after it with SP at its old value.
C20_StackDiscipline ==
    /\ obs.op = "PUSH"
          => /\ sp = (obs.sp - 2) % 65536
             /\ CPU_read_byte(bus, (sp + 1) % 65536) = obs.value \div 256
             /\ CPU_read_byte(bus, sp) = obs.value % 256
    /\ (obs.op = "POP" /\ obs.prev.op = "PUSH")
          => /\ Registers_get(TheRegs, obs.target)
                  = IF obs.target = "AF" THEN BitAnd(obs.prev.value, 65520)
                    ELSE obs.prev.value
             /\ sp = obs.prev.sp
    /\ (obs.op = "RET" /\ obs.prev.op = "CALL")
          => pc = (obs.prev.pc + 3) % 65536 /\ sp = obs.prev.sp
    /\ (obs.op = "RET" /\ obs.prev.op = "RST")
          => pc = (obs.prev.pc + 1) % 65536 /\ sp = obs.prev.sp

-----------------------------------------------------------------------------
(* SBC and DAA of the monolithic CPU (src/src/system/cpu.rs), on the       *)
(* register file.  u8 and u16 arithmetic that leaves its range panics in a *)
(* build with overflow checks and wraps in one without: wraps says which   *)
(* build runs.  The result is [panics, regs].                              *)

\* Instructions::SBC(ArithmeticTarget::A, source), source_value read from source
CPU_sbc(r, source_value, wraps) ==
    LET difference == r.a - source_value - FlagsRegister_to_u8(r.f)
        f1 == [r.f EXCEPT !.carry = (difference < 0), !.subtract = TRUE]
        f2 == [f1 EXCEPT !.half_carry =
                  ((r.a % 16) - (r.a % 16) - FlagsRegister_to_u8(f1) < 0)]
        first == r.a - r.h
        second == (first % 256) - FlagsRegister_to_u8(f2)
        a == second % 256
    IN IF ~wraps /\ (first < 0 \/ second < 0)
       THEN [panics |-> TRUE, regs |-> [r EXCEPT !.f = f2]]
       ELSE [panics |-> FALSE,
             regs |-> [r EXCEPT !.a = a, !.f = [f2 EXCEPT !.zero = (a = 0)]]]

\* Instructions::DAA()
CPU_daa(r, wraps) ==
    LET s0 == r.a
        s1 == IF r.f.subtract
              THEN IF r.f.half_carry THEN (s0 - 6) % 256 ELSE s0
              ELSE IF r.f.half_carry \/ (s0 % 16) > 9 THEN s0 + 6 ELSE s0
        s == IF r.f.subtract
             THEN IF r.f.carry THEN (s1 - 96) % 65536 ELSE s1
             ELSE IF r.f.carry \/ s1 > 159 THEN s1 + 96 ELSE s1
        a == s % 256
        underflows == /\ r.f.subtract
                      /\ \/ r.f.half_carry /\ s0 < 6
                         \/ r.f.carry /\ s1 < 96
    IN IF ~wraps /\ underflows
       THEN [panics |-> TRUE, regs |-> r]
       ELSE [panics |-> FALSE,
             regs |-> [r EXCEPT !.a = a,
                                !.f = [@ EXCEPT !.subtract = FALSE,
                                                !.zero = (a = 0),
                                                !.carry = (@ \/ s >= 256)]]]

\* the register a byte ArithmeticSource names
CPU_source_value(r, source) ==
    CASE source = "A" -> r.a
      [] source = "B" -> r.b
      [] source = "H" -> r.h

\* instructions executed by one run
MaxAluOps == 1

\* subtrahends in B and bytes in H: zero, one nibble, both nibbles, 0xFF
AluSources == {0, 15, 42, 59, 255}
AluHighs == {0, 16}

AluObsInit ==
    [op |-> "init", ops |-> 0, source_value |-> 0, panics |-> FALSE,
     before |-> Registers_initial]

InitAlu ==
    /\ InitCPUAt(<<0, 456>>)
    /\ gpu = GPU_new
    /\ intref = Interrupt_new
    /\ probe = ProbeIdle
    /\ timer = Timer_new
    /\ cart = CartAtRest
    /\ mem = MemAtRest
    /\ obs = AluObsInit
    /\ \E b \in AluSources, h \in AluHighs, flags \in 0 .. 15 :
         regs = [RegsAtRest EXCEPT !.b = b, !.h = h,
                                   !.f = FlagsRegister_from_u8(flags * 16)]

\* the variables after an instruction of one byte left outcome o
AluStep(o) ==
    /\ reg_a' = o.regs.a
    /\ regs' = RegistersBesidesA(o.regs)
    /\ pc' = IF o.panics THEN pc ELSE (pc + 1) % 65536
    /\ UNCHANGED <<sp, ime, is_halted, bus, phase, cycles, steps, fetched, probe>>
    /\ UNCHANGED <<gpu, intref, timer, cart, mem>>

\* LD A,d8 (Instructions::LD(LoadType::Byte(A, D8))): any byte into A
AluLoadA ==
    /\ obs.op = "init"
    /\ \E a \in 0 .. 255 :
         /\ reg_a' = a
         /\ pc' = (pc + 2) % 65536
         /\ obs' = [obs EXCEPT !.op = "LD"]
    /\ UNCHANGED <<sp, ime, is_halted, bus, phase, cycles, steps, fetched, probe>>
    /\ UNCHANGED <<gpu, intref, timer, cart, mem, regs>>

\* Instructions::SBC(A, source)
AluSbc ==
    /\ obs.ops < MaxAluOps
    /\ ~obs.panics
    /\ \E source \in {"A", "B", "H"}, wraps \in BOOLEAN :
         LET v == CPU_source_value(TheRegs, source)
         IN /\ AluStep(CPU_sbc(TheRegs, v, wraps))
            /\ obs' = [op |-> "SBC", ops |-> obs.ops + 1, source_value |-> v,
                       panics |-> CPU_sbc(TheRegs, v, wraps).panics,
                       before |-> TheRegs]

\* Instructions::DAA()
AluDaa ==
    /\ obs.ops < MaxAluOps
    /\ ~obs.panics
    /\ \E wraps \in BOOLEAN :
         /\ AluStep(CPU_daa(TheRegs, wraps))
         /\ obs' = [op |-> "DAA", ops |-> obs.ops + 1, source_value |-> 0,
                    panics |-> CPU_daa(TheRegs, wraps).panics,
                    before |-> TheRegs]

NextAlu == AluLoadA \/ AluSbc \/ AluDaa

SpecAlu == InitAlu /\ [][NextAlu]_vars

\* the carry into a subtraction: 1 iff the carry flag is set
CarryIn(r) == IF r.f.carry THEN 1 ELSE 0

\* C18: SBC A,src completes and leaves A = (A - src - c) mod 256 for c the
\* carry flag, N set, Z set iff the result is zero, H set iff the low nibble
\* borrowed, and C set iff the subtraction borrowed.
C18_Sbc ==
    obs.op = "SBC" =>
        LET a == obs.before.a
            src == obs.source_value
            c == CarryIn(obs.before)
        IN /\ ~obs.panics
           /\ reg_a = (a - src - c) % 256
           /\ regs.f.subtract
           /\ regs.f.zero = (reg_a = 0)
           /\ regs.f.half_carry = ((a % 16) < (src % 16) + c)
           /\ regs.f.carry = (a < src + c)

\* C19: DAA completes; after an addition it adds 0x60 if C or A > 0x99,
\* setting C, and 0x06 if H or the low nibble exceeds 9; after a subtraction
\* it subtracts 0x60 if C and 0x06 if H, modulo 256; Z is set iff the result
\* is zero, H is cleared and N is what it was.
C19_Daa ==
    obs.op = "DAA" =>
        LET a == obs.before.a
            f == obs.before.f
            high == IF f.subtract THEN f.carry ELSE f.carry \/ a > 153
            low == IF f.subtract THEN f.half_carry
                   ELSE f.half_carry \/ (a % 16) > 9
            adjust == (IF high THEN 96 ELSE 0) + (IF low THEN 6 ELSE 0)
            result == IF f.subtract THEN (a - adjust) % 256 ELSE (a + adjust) % 256
        IN /\ ~obs.panics
           /\ reg_a = result
           /\ regs.f.zero = (result = 0)
           /\ ~regs.f.half_carry
           /\ regs.f.subtract = f.subtract
           /\ (~f.subtract /\ high) => regs.f.carry

-----------------------------------------------------------------------------
(* The joypad (src/src/system/joypad.rs): the host's key events.  The key  *)
(* matrix and the select byte are mem.matrix and mem.select.               *)

\* enum Keys: the bit of each key in the matrix
Keys == {1, 2, 4, 8, 16, 32, 64, 128}

\* a key_down that requests no interrupt
Joypad_key_down_silent(m, i, key) ==
    [mem |-> [m EXCEPT !.matrix = BitAnd(m.matrix, 255 - key)], intref |-> i]

\* Joypad::key_down(key)
Joypad_key_down(m, i, key) ==
    [mem |-> [m EXCEPT !.matrix = BitAnd(m.matrix, 255 - key)],
     intref |-> Interrupt_set_interrupt(i, 16)]

\* Joypad::key_up(key)
Joypad_key_up(m, i, key) ==
    [mem |-> [m EXCEPT !.matrix = BitOr(m.matrix, key)], intref |-> i]

\* host and guest events of one run
MaxJoyOps == 3

\* bytes the guest writes to P1: both groups, one group, no group selected
JoySelects == {0, 16, 32, 48}

\* bytes the guest writes to IF: no request, others pending, all pending
JoyFlags == {0, 5, 31}

JoyObsInit ==
    [op |-> "init", ops |-> 0, key |-> 0, matrix |-> 255, interrupt_flag |-> 0,
     prev |-> [op |-> "init", key |-> 0, matrix |-> 255]]

\* obs after event op on key; matrix and interrupt_flag are those the event
\* started with, prev is the event before it
JoyObs(op, key) ==
    [op |-> op, ops |-> obs.ops + 1, key |-> key, matrix |-> mem.matrix,
     interrupt_flag |-> intref.interrupt_flag,
     prev |-> [op |-> obs.op, key |-> obs.key, matrix |-> obs.matrix]]

InitJoypad ==
    /\ InitCPUAt(<<0, 456>>)
    /\ gpu = GPU_new
    /\ intref = Interrupt_new
    /\ probe = ProbeIdle
    /\ timer = Timer_new
    /\ cart = CartAtRest
    /\ mem = MMU_new
    /\ regs = RegsAtRest
    /\ obs = JoyObsInit

JoyFrame ==
    /\ UNCHANGED <<pc, sp, ime, is_halted, reg_a, bus, phase, cycles, steps, fetched, probe>>
    /\ UNCHANGED <<gpu, timer, cart, regs>>

\* Joypad::key_down(key), called by the host
JoyKeyDown ==
    /\ obs.ops < MaxJoyOps
    /\ \E key \in Keys :
         LET r == Joypad_key_down(mem, intref, key)
         IN /\ mem' = r.mem
            /\ intref' = r.intref
            /\ obs' = JoyObs("key_down", key)
    /\ JoyFrame

\* Joypad::key_up(key), called by the host
JoyKeyUp ==
    /\ obs.ops < MaxJoyOps
    /\ \E key \in Keys :
         LET r == Joypad_key_up(mem, intref, key)
         IN /\ mem' = r.mem
            /\ intref' = r.intref
            /\ obs' = JoyObs("key_up", key)
    /\ JoyFrame

\* MemoryBus::write_byte(0xFF00, value) and write_byte(0xFF0F, value)
JoyGuestWrite ==
    /\ obs.ops < MaxJoyOps
    /\ \/ \E value \in JoySelects :
            /\ mem' = MemoryBus_write_byte(TheBus, 65280, value, 0).mem
            /\ intref' = intref
            /\ obs' = JoyObs("select", 0)
       \/ \E value \in JoyFlags :
            /\ intref' = MemoryBus_write_byte(TheBus, 65295, value, 0).intref
            /\ mem' = mem
            /\ obs' = JoyObs("flag", 0)
    /\ JoyFrame

NextJoypad == JoyKeyDown \/ JoyKeyUp \/ JoyGuestWrite

SpecJoypad == InitJoypad /\ [][NextJoypad]_vars

\* what key_down and key_up do by themselves
JoypadEvent ==
    /\ obs.op = "key_down"
          => /\ mem.matrix = BitAnd(obs.matrix, 255 - obs.key)
             /\ intref.interrupt_flag = BitOr(obs.interrupt_flag, 16)
    /\ obs.op = "key_up"
          => /\ mem.matrix = BitOr(obs.matrix, obs.key)
             /\ intref.interrupt_flag = obs.interrupt_flag

\* key_up(k) came right after key_down(k)
JoypadPressRelease ==
    obs.op = "key_up" /\ obs.prev.op = "key_down" /\ obs.prev.key = obs.key

\* C24 as stated: key_down(k) clears only k's bit and sets IF bit 4 only,
\* on every call; key_up(k) sets only k's bit and leaves IF alone; and
\* key_down(k) followed by key_up(k) gives the matrix back.
C24_JoypadEvents ==
    /\ JoypadEvent
    /\ JoypadPressRelease => mem.matrix = obs.prev.matrix

\* C24, amended: as stated, except that key_down(k) followed by key_up(k)
\* gives the matrix back when k was up before the pair, and otherwise leaves
\* the matrix with k's bit set and every other bit as before.
C24_JoypadEventsAmended ==
    /\ JoypadEvent
    /\ JoypadPressRelease
          => /\ BitAnd(obs.prev.matrix, obs.key) # 0 => mem.matrix = obs.prev.matrix
             /\ mem.matrix = BitOr(obs.prev.matrix, obs.key)

\* a key that was up, with another key held and other requests pending, was
\* pressed and released
C24_Witness ==
    /\ JoypadPressRelease
    /\ BitAnd(obs.prev.matrix, obs.key) # 0
    /\ obs.prev.matrix # 255
    /\ mem.matrix = obs.prev.matrix
    /\ BitAnd(intref.interrupt_flag, 16) # 0

-----------------------------------------------------------------------------
(* Loading a cartridge (src/src/system/cartridge.rs): Cartridge::new on a  *)
(* ROM image followed by determine_mbc.  The image is given by its length  *)
(* and its header bytes 0x147 (type), 0x148 (ROM size), 0x149 (RAM size).  *)

\* Cartridge::get_rom_size(byte): the size in bytes, or -1 where it panics
Cartridge_get_rom_size(byte) ==
    CASE byte \in 0 .. 8 -> 16384 * (2 ^ (byte + 1))
      [] byte = 82 -> 16384 * 72
      [] byte = 83 -> 16384 * 80
      [] byte = 84 -> 16384 * 96
      [] OTHER -> -1

\* Cartridge::new(path) then determine_mbc(): how the load ends ("Ok", a
\* panic, or the error value "InvalidHeader") and the cartridge it leaves
Cartridge_load(len, cart_type, rom_size, ram_size) ==
    LET panic == [outcome |-> "panic", cart |-> CartAtRest]
        ram_len == CASE ram_size = 0 -> 0
                     [] ram_size = 1 -> 2048
                     [] ram_size = 2 -> 8192
                     [] ram_size = 3 -> 32768
                     [] ram_size = 4 -> 131072
                     [] ram_size = 5 -> 65536
                     [] OTHER -> -1
        ok(mbc, ram) == IF ram < 0 THEN panic
                        ELSE [outcome |-> "Ok", cart |-> Cartridge_new(mbc, len, ram)]
    IN IF len < 336 THEN panic
       ELSE IF Cartridge_get_rom_size(rom_size) < 0 THEN panic
       ELSE IF len > Cartridge_get_rom_size(rom_size) THEN panic
       ELSE CASE cart_type = 0 -> ok("None", 0)
              [] cart_type = 1 -> ok("MBC1", 0)
              [] cart_type \in {2, 3} -> ok("MBC1", ram_len)
              [] cart_type \in {5, 6} -> ok("MBC2", 512)
              [] cart_type \in {15, 17} -> ok("MBC3", 0)
              [] cart_type \in {16, 18, 19} -> ok("MBC3", ram_len)
              [] cart_type = 25 -> ok("MBC5", 0)
              [] cart_type \in {26, 27} -> ok("MBC5", ram_len)
              [] OTHER -> panic

\* image lengths: one byte short of a header, a bare header, 32 KiB, 64 KiB
ImageLengths == {335, 336, 32768, 65536}

\* header bytes: every cartridge type up to 0x20, ROM-size codes at both ends
\* of both defined ranges and outside them, RAM-size codes in and out of range
CartTypes == 0 .. 32
RomSizeCodes == {0, 1, 8, 9, 82, 84, 85}
RamSizeCodes == {0, 3, 6}

LoadObsInit(len, cart_type, rom_size, ram_size) ==
    [op |-> "image", len |-> len, cart_type |-> cart_type,
     rom_size |-> rom_size, ram_size |-> ram_size, outcome |-> "none"]

InitLoad ==
    /\ InitCPUAt(<<0, 456>>)
    /\ gpu = GPU_new
    /\ intref = Interrupt_new
    /\ probe = ProbeIdle
    /\ timer = Timer_new
    /\ cart = CartAtRest
    /\ mem = MemAtRest
    /\ regs = RegsAtRest
    /\ \E len \in ImageLengths, cart_type \in CartTypes,
          rom_size \in RomSizeCodes, ram_size \in RamSizeCodes :
         obs = LoadObsInit(len, cart_type, rom_size, ram_size)

\* Cartridge::new(path) and determine_mbc() on the image obs describes
CartLoad ==
    /\ obs.op = "image"
    /\ LET r == Cartridge_load(obs.len, obs.cart_type, obs.rom_size, obs.ram_size)
       IN /\ cart' = r.cart
          /\ obs' = [obs EXCEPT !.op = "load", !.outcome = r.outcome]
    /\ UNCHANGED <<pc, sp, ime, is_halted, reg_a, bus, phase, cycles, steps, fetched, probe>>
    /\ UNCHANGED <<gpu, intref, timer, mem, regs>>

NextLoad == CartLoad

SpecLoad == InitLoad /\ [][NextLoad]_vars

\* the defined codes of header bytes 0x148 and 0x147, and the RAM-size codes
DefinedRomSizes == (0 .. 8) \cup {82, 83, 84}
DefinedCartTypes == {0, 1, 2, 3, 5, 6, 15, 16, 17, 18, 19, 25, 26, 27}
DefinedRamSizes == 0 .. 5

\* the variant the cartridge-type byte stands for
VariantOf(cart_type) ==
    CASE cart_type = 0 -> "None"
      [] cart_type \in 1 .. 3 -> "MBC1"
      [] cart_type \in 5 .. 6 -> "MBC2"
      [] cart_type \in 15 .. 19 -> "MBC3"
      [] cart_type \in 25 .. 27 -> "MBC5"

\* C25: loading an image shorter than 0x150 bytes, or with an undefined
\* ROM-size or cartridge-type byte, ends with the error value InvalidHeader;
\* loading an image with a valid header (that fits the size it declares and
\* declares a defined RAM size) succeeds with the variant of its type byte.
C25_HeaderValidation ==
    obs.op = "load" =>
        IF \/ obs.len < 336
           \/ obs.rom_size \notin DefinedRomSizes
           \/ obs.cart_type \notin DefinedCartTypes
        THEN obs.outcome = "InvalidHeader"
        ELSE (/\ obs.len <= Cartridge_get_rom_size(obs.rom_size)
              /\ obs.ram_size \in DefinedRamSizes)
                => /\ obs.outcome = "Ok"
                   /\ cart.mbc = VariantOf(obs.cart_type)

-----------------------------------------------------------------------------
(* ROM banking of MBC1 and MBC3: control writes to 0x0000 .. 0x7FFF and    *)
(* reads of the switchable bank.                                           *)

MaxBankOps == 3

\* cartridges with 128 ROM banks, so that every selectable bank exists
BankCartridges == {<<"MBC1", 2097152, 32768>>, <<"MBC3", 2097152, 32768>>}

\* control addresses: RAM enable, both ends of the ROM bank area, the upper
\* bits / RAM bank area, the mode / latch area
BankWriteAddrs == {0, 8192, 16383, 16384, 24576}

\* values written: bank bits zero with other bits clear and set (0x00, 0x20,
\* 0x60, 0x80, 0xE0), and non-zero bank bits (0x01, 0x03, 0x1F)
BankValues == {0, 32, 96, 128, 224, 1, 3, 31}

\* addresses read in the switchable bank
BankReadAddrs == {16384, 32767}

BankObsInit ==
    [op |-> "init", ops |-> 0, address |-> 0, value |-> 0, result |-> Byte(0),
     bank |-> 1]

InitBank ==
    /\ InitCPUAt(<<0, 456>>)
    /\ gpu = GPU_new
    /\ intref = Interrupt_new
    /\ probe = ProbeIdle
    /\ timer = Timer_new
    /\ mem = MemAtRest
    /\ regs = RegsAtRest
    /\ obs = BankObsInit
    /\ \E k \in BankCartridges : cart = Cartridge_new(k[1], k[2], k[3])

\* Cartridge::write_byte(address, value) to a control register; obs.bank is
\* the bank register the write found
BankWrite ==
    /\ obs.ops < MaxBankOps
    /\ ~cart.panicked
    /\ \E address \in BankWriteAddrs, value \in BankValues, d \in ClockReadings :
         /\ cart' = Cartridge_write_byte(cart, address, value, d)
         /\ obs' = [op |-> "write", ops |-> obs.ops + 1, address |-> address,
                    value |-> value, result |-> Byte(0), bank |-> cart.bank]
    /\ UNCHANGED <<pc, sp, ime, is_halted, reg_a, bus, phase, cycles, steps, fetched, probe>>
    /\ UNCHANGED <<gpu, intref, timer, mem, regs>>

\* Cartridge::read_byte(address) in 0x4000 .. 0x7FFF
BankRead ==
    /\ obs.ops < MaxBankOps
    /\ ~cart.panicked
    /\ \E address \in BankReadAddrs :
         LET r == Cartridge_read_byte(cart, address)
         IN /\ cart' = [cart EXCEPT !.panicked = r.panics]
            /\ obs' = [op |-> "read", ops |-> obs.ops + 1, address |-> address,
                       value |-> 0, result |-> r, bank |-> cart.bank]
    /\ UNCHANGED <<pc, sp, ime, is_halted, reg_a, bus, phase, cycles, steps, fetched, probe>>
    /\ UNCHANGED <<gpu, intref, timer, mem, regs>>

NextBank == BankWrite \/ BankRead

SpecBank == InitBank /\ [][NextBank]_vars

\* the ROM bank a read of 0x4000 .. 0x7FFF is served from: the image holds
\* i + i \div 16384 at index i, so the first byte of bank n is n
MappedBank == Cartridge_read_byte(cart, 16384)

\* C29: on MBC1 and MBC3 the bank mapped at 0x4000 .. 0x7FFF is never bank 0,
\* whatever was written to the control registers; a write to 0x2000 .. 0x3FFF
\* whose bank bits are zero selects bank 1 (MBC1: the low five bits become 1
\* and bits 5-6 stay; MBC3: the seven bits become 1).
C29_BankNeverZero ==
    /\ ~MappedBank.panics /\ MappedBank.value # 0
    /\ (obs.op = "read" /\ obs.address = 16384) => obs.result = MappedBank
    /\ (obs.op = "write" /\ obs.address \in 8192 .. 16383 /\ cart.mbc = "MBC1"
          /\ obs.value % 32 = 0)
          => /\ cart.bank = BitAnd(obs.bank, 96) + 1
             /\ MappedBank.value % 32 = 1
    /\ (obs.op = "write" /\ obs.address \in 8192 .. 16383 /\ cart.mbc = "MBC3"
          /\ obs.value % 128 = 0)
          => MappedBank.value = 1

\* MBC1 with upper bank bits set took a write of zero bank bits and maps
\* bank 0x21, 0x41 or 0x61
C29_Witness ==
    /\ obs.op = "write" /\ obs.address \in 8192 .. 16383 /\ cart.mbc = "MBC1"
    /\ obs.value % 32 = 0
    /\ BitAnd(obs.bank, 96) # 0
    /\ cart.bank_mode = "Rom"
    /\ MappedBank.value = BitAnd(obs.bank, 96) + 1

-----------------------------------------------------------------------------
(* The real-time clock of MBC3 (src/src/system/rtc.rs) behind the latch    *)
(* register.  RealTimeClock::tick reads SystemTime::now(); the seconds it  *)
(* finds since the clock's epoch are the reading d of a write.             *)

MaxRtcOps == 3

\* seconds since the epoch the host's clock may show: none, 1 min 1 s,
\* 1 day 1 h 1 min 1 s
RtcReadings == {0, 61, 90061}

\* addresses written: RAM/RTC enable, register select, latch, the selected
\* register; values: 0, 1, RTC seconds select, enable
RtcWriteAddrs == {0, 16384, 24576, 40960}
RtcValues == {0, 1, 8, 10}

RtcObsInit ==
    [op |-> "init", ops |-> 0, address |-> 0, value |-> 0, d |-> 0,
     latch |-> 0, rtc |-> RealTimeClock_new, outcomes |-> {},
     result |-> Byte(0)]

InitRtc ==
    /\ InitCPUAt(<<0, 456>>)
    /\ gpu = GPU_new
    /\ intref = Interrupt_new
    /\ probe = ProbeIdle
    /\ timer = Timer_new
    /\ mem = MemAtRest
    /\ regs = RegsAtRest
    /\ obs = RtcObsInit
    /\ cart = Cartridge_new("MBC3", 2097152, 32768)

\* Cartridge::write_byte(address, value) while the host's clock shows d.
\* obs keeps the reading, the value last written to the latch register
\* before this write, the clock registers the write found, and the
\* cartridges the write leaves under each reading the clock may show.
RtcWrite ==
    /\ obs.ops < MaxRtcOps
    /\ ~cart.panicked
    /\ \E address \in RtcWriteAddrs, value \in RtcValues, d \in RtcReadings :
         /\ d >= obs.d
         /\ cart' = Cartridge_write_byte(cart, address, value, d)
         /\ obs' = [op |-> "write", ops |-> obs.ops + 1, address |-> address,
                    value |-> value, d |-> d,
                    latch |-> IF obs.op = "write" /\ obs.address \in 24576 .. 32767
                              THEN obs.value ELSE obs.latch,
                    rtc |-> cart.rtc,
                    outcomes |-> {Cartridge_write_byte(cart, address, value, e) :
                                     e \in RtcReadings},
                    result |-> Byte(0)]
    /\ UNCHANGED <<pc, sp, ime, is_halted, reg_a, bus, phase, cycles, steps, fetched, probe>>
    /\ UNCHANGED <<gpu, intref, timer, mem, regs>>

\* Cartridge::read_byte(0xA000): external RAM or the selected clock register
RtcRead ==
    /\ obs.ops < MaxRtcOps
    /\ ~cart.panicked
    /\ LET r == Cartridge_read_byte(cart, 40960)
       IN /\ cart' = [cart EXCEPT !.panicked = r.panics]
          /\ obs' = [obs EXCEPT !.op = "read", !.ops = @ + 1, !.address = 40960,
                                !.latch = IF obs.op = "write"
                                             /\ obs.address \in 24576 .. 32767
                                          THEN obs.value ELSE obs.latch,
                                !.rtc = cart.rtc, !.outcomes = {}, !.result = r]
    /\ UNCHANGED <<pc, sp, ime, is_halted, reg_a, bus, phase, cycles, steps, fetched, probe>>
    /\ UNCHANGED <<gpu, intref, timer, mem, regs>>

NextRtc == RtcWrite \/ RtcRead

SpecRtc == InitRtc /\ [][NextRtc]_vars

\* C30: a write to 0x6000 .. 0x7FFF snapshots the clock registers when it
\* changes the latch value from 0 to 1 and only then: the registers change
\* on no other latch write, so not on a second 1 in a row and not on a 0.
C30_LatchEdge ==
    (obs.op = "write" /\ obs.address \in 24576 .. 32767) =>
        IF obs.latch = 0 /\ obs.value = 1
        THEN cart.rtc = RealTimeClock_tick(obs.rtc, obs.d)
        ELSE cart.rtc = obs.rtc

\* C21: what a step of the core leaves depends on the state it started from
\* and on its input only, not on what the host's clock shows: a guest write
\* leaves the same cartridge under every clock reading, so two runs fed the
\* same inputs agree on every byte a later read returns.
C21_Deterministic ==
    obs.op = "write" => obs.outcomes = {cart}

-----------------------------------------------------------------------------
(* The dot position of the stand-alone PPU: where update_graphics leaves   *)
(* LY, the dot counter and the mode, tick by tick.                         *)

MaxDotOps == 4

\* cycle counts handed to update_graphics: one machine cycle, half of the
\* OAM scan, a multiple of 80, the length of the pixel transfer, a scanline
DotTicks == {4, 40, 80, 172, 456}

\* STAT values written: no source, one source each, all four
StatValues == {0, 8, 16, 32, 64, 120}

DotObsInit == [op |-> "init", ops |-> 0, cycles |-> 0, before |-> GPU_new,
               flag |-> 0, log |-> <<>>]

InitDots ==
    /\ InitCPUAt(<<0, 456>>)
    /\ gpu = GPU_new
    /\ intref = Interrupt_new
    /\ probe = ProbeIdle
    /\ timer = Timer_new
    /\ cart = CartAtRest
    /\ mem = MemAtRest
    /\ regs = RegsAtRest
    /\ obs = DotObsInit

DotFrame ==
    /\ UNCHANGED <<pc, sp, ime, is_halted, reg_a, bus, phase, cycles, steps, fetched, probe>>
    /\ UNCHANGED <<timer, cart, mem, regs>>

\* update_graphics(c), c >= 1; obs keeps c, the PPU and IF the tick found
\* and what each loop iteration did
DotsTick ==
    /\ obs.ops < MaxDotOps
    /\ \E c \in DotTicks :
         LET r == GPU_update_graphics(gpu, c)
         IN /\ gpu' = r.gpu
            /\ intref' = Interrupt_after(intref, r.log)
            /\ obs' = [op |-> "tick", ops |-> obs.ops + 1, cycles |-> c,
                       before |-> gpu, flag |-> intref.interrupt_flag,
                       log |-> r.log]
    /\ DotFrame

\* write_registers(0xFF40, v): display on or off; and the guest clearing IF
DotsWriteLCDC ==
    /\ obs.ops < MaxDotOps
    /\ \E v \in LcdcValues : gpu' = GPU_write_registers(gpu, 65344, v)
    /\ intref' = [intref EXCEPT !.interrupt_flag = 0]
    /\ obs' = [op |-> "lcdc", ops |-> obs.ops + 1, cycles |-> 0,
               before |-> gpu, flag |-> intref.interrupt_flag, log |-> <<>>]
    /\ DotFrame

\* write_registers(0xFF41, v) and write_registers(0xFF45, 2)
DotsWriteStat ==
    /\ obs.ops < MaxDotOps
    /\ \/ \E v \in StatValues : gpu' = GPU_write_registers(gpu, 65345, v)
       \/ gpu' = GPU_write_registers(gpu, 65349, 2)
    /\ obs' = [op |-> "stat", ops |-> obs.ops + 1, cycles |-> 0,
               before |-> gpu, flag |-> intref.interrupt_flag, log |-> <<>>]
    /\ UNCHANGED intref
    /\ DotFrame

NextDots == DotsTick \/ DotsWriteLCDC \/ DotsWriteStat

SpecDots == InitDots /\ [][NextDots]_vars

\* LY * 456 + dot
Position(g) == g.current_line * 456 + g.scanline_counter

\* C28: with the LCD enabled, update_graphics(cycles) moves the position
\* LY * 456 + dot forward by exactly `cycles` modulo 154 * 456, for every
\* cycles >= 1.
C28_DotsConserved ==
    (obs.op = "tick" /\ Lcdc_bit7(obs.before)) =>
        Position(gpu) % (154 * 456)
            = (Position(obs.before) + obs.cycles) % (154 * 456)

\* C26: with the LCD enabled, after every tick the mode is 1 if LY >= 144,
\* and otherwise 2 for a dot below 80, 3 for a dot in 80 .. 251 and 0 for a
\* dot in 252 .. 455.
C26_ModeOfPosition ==
    (obs.op = "tick" /\ Lcdc_bit7(gpu)) =>
        gpu.mode = IF gpu.current_line >= 144 THEN 1
                   ELSE IF gpu.scanline_counter < 80 THEN 2
                   ELSE IF gpu.scanline_counter < 252 THEN 3
                   ELSE 0

-----------------------------------------------------------------------------
(* The STAT interrupt of the monolithic CPU: CPU::update_graphics calls    *)
(* CPU::set_status before it moves the scanline counter; the guest writes  *)
(* STAT, LYC and IF between ticks.                                         *)

MaxStatOps == 4

\* cycles of one instruction handed to update_graphics
StatTicks == {4, 24}

\* STAT values the guest writes: no source, H-blank, OAM, LY = LYC
StatSources == {0, 8, 32, 64}

StatObsInit == [op |-> "init", ops |-> 0, stat |-> 0, line |-> 0, lyc |-> 0,
                flag |-> 0]

InitStat ==
    /\ InitCPUAt(<<0, 456>>)
    /\ gpu = GPU_new
    /\ intref = Interrupt_new
    /\ probe = ProbeIdle
    /\ timer = Timer_new
    /\ cart = CartAtRest
    /\ mem = MemAtRest
    /\ regs = RegsAtRest
    /\ obs = StatObsInit

\* what obs keeps of the machine an operation found
StatObs(op) ==
    [op |-> op, ops |-> obs.ops + 1, stat |-> bus.gpu.stat,
     line |-> bus.gpu.current_line, lyc |-> bus.gpu.lyc,
     flag |-> bus.interrupt_flag]

StatFrame ==
    /\ UNCHANGED <<pc, sp, ime, is_halted, reg_a, phase, cycles, steps, fetched, probe>>
    /\ UNCHANGED <<gpu, intref, timer, cart, mem, regs>>

\* CPU::update_graphics(c)
StatTick ==
    /\ obs.ops < MaxStatOps
    /\ \E c \in StatTicks : bus' = CPU_update_graphics(bus, c)
    /\ obs' = StatObs("tick")
    /\ StatFrame

\* the guest writes STAT, LYC, or clears IF
StatGuestWrite ==
    /\ obs.ops < MaxStatOps
    /\ \/ \E v \in StatSources : bus' = CPU_write_byte(bus, 65345, v)
       \/ \E v \in {0, 1} : bus' = CPU_write_byte(bus, 65349, v)
       \/ bus' = CPU_write_byte(bus, 65295, 0)
    /\ obs' = StatObs("write")
    /\ StatFrame

NextStat == StatTick \/ StatGuestWrite

SpecStat == InitStat /\ [][NextStat]_vars

\* C27: a tick sets IF bit 1 only for an enabled source and only on entry:
\* when the tick takes the mode to 0, 1 or 2 from another mode with STAT
\* bit 3, 4 or 5 set, or when LY is LYC with STAT bit 6 set; not while the
\* mode stays what it was and bit 6 is clear.
C27_LcdStatOnEntry ==
    (obs.op = "tick" /\ BitAnd(obs.flag, 2) = 0
                     /\ BitAnd(bus.interrupt_flag, 2) # 0) =>
        LET entered == BitAnd(bus.gpu.stat, 3)
            left == BitAnd(obs.stat, 3)
        IN \/ entered # left /\ entered = 0 /\ BitAnd(obs.stat, 8) # 0
           \/ entered # left /\ entered = 1 /\ BitAnd(obs.stat, 16) # 0
           \/ entered # left /\ entered = 2 /\ BitAnd(obs.stat, 32) # 0
           \/ obs.line = obs.lyc /\ BitAnd(obs.stat, 64) # 0

-----------------------------------------------------------------------------
(* The CGB speed switch: KEY1 (0xFF4D) on the stand-alone bus,             *)
(* MemoryBus::change_speed, and the STOP opcode (0x10) as                  *)
(* CPU::execute_instruction decodes it.                                    *)

\* MemoryBus::change_speed
MemoryBus_change_speed(m) ==
    [m EXCEPT !.speed = IF m.speed_shift
                        THEN (IF m.speed = "Double" THEN "Regular" ELSE "Double")
                        ELSE m.speed,
              !.speed_shift = FALSE]

MaxSpeedOps == 6

\* values written to KEY1: bit 0 clear or set, with or without other bits
Key1Values == {0, 1, 128, 129, 254}

SpeedObsInit ==
    [op |-> "init", ops |-> 0, value |-> 0, result |-> Byte(0),
     speed |-> "Regular", speed_shift |-> FALSE]

InitSpeed ==
    /\ InitCPUAt(<<0, 456>>)
    /\ gpu = GPU_new
    /\ intref = Interrupt_new
    /\ probe = ProbeIdle
    /\ timer = Timer_new
    /\ cart = CartAtRest
    /\ mem = MMU_new
    /\ regs = RegsAtRest
    /\ obs = SpeedObsInit

\* what obs keeps of an operation: its kind, the value written or the byte
\* read, and the speed and the arm the operation found
SpeedObs(op, value, result) ==
    [op |-> op, ops |-> obs.ops + 1, value |-> value, result |-> result,
     speed |-> mem.speed, speed_shift |-> mem.speed_shift]

SpeedFrame ==
    /\ UNCHANGED <<pc, sp, ime, is_halted, reg_a, bus, phase, cycles, steps, fetched, probe>>
    /\ UNCHANGED <<gpu, intref, timer, cart, regs>>

\* MemoryBus::write_byte(0xFF4D, value)
SpeedWriteKey1 ==
    /\ obs.ops < MaxSpeedOps
    /\ ~mem.panicked
    /\ \E value \in Key1Values :
         /\ mem' = MemoryBus_write_byte(TheBus, 65357, value, 0).mem
         /\ obs' = SpeedObs("write", value, Byte(0))
    /\ SpeedFrame

\* MemoryBus::read_byte(0xFF4D)
SpeedReadKey1 ==
    /\ obs.ops < MaxSpeedOps
    /\ ~mem.panicked
    /\ LET r == MemoryBus_read_byte(TheBus, 65357)
       IN /\ mem' = [mem EXCEPT !.panicked = r.panics]
          /\ obs' = SpeedObs("read", 0, r)
    /\ SpeedFrame

\* MemoryBus::change_speed(), called by the host
SpeedChange ==
    /\ obs.ops < MaxSpeedOps
    /\ ~mem.panicked
    /\ mem' = MemoryBus_change_speed(mem)
    /\ obs' = SpeedObs("change", 0, Byte(0))
    /\ SpeedFrame

\* the CPU executes the STOP opcode, 0x10: execute_instruction finds no
\* instruction for the byte and panics; no instruction calls change_speed
SpeedStop ==
    /\ obs.ops < MaxSpeedOps
    /\ ~mem.panicked
    /\ LET r == CPU_execute_instruction(16, FALSE, regs.f.zero, regs.f.carry, FALSE)
       IN mem' = [mem EXCEPT !.panicked = r.panics]
    /\ obs' = SpeedObs("stop", 0, Byte(0))
    /\ SpeedFrame

NextSpeed == SpeedWriteKey1 \/ SpeedReadKey1 \/ SpeedChange \/ SpeedStop

SpecSpeed == InitSpeed /\ [][NextSpeed]_vars

\* C23: a write of 0xFF4D arms the switch when bit 0 is set and disarms it
\* otherwise, and leaves the speed; STOP toggles the speed and clears the
\* arm when a switch is armed and leaves the speed otherwise, and the
\* machine runs on; a read of 0xFF4D has bit 7 = speed is Double and
\* bit 0 = armed.
C23_SpeedSwitch ==
    /\ obs.op = "write" =>
          /\ mem.speed_shift = (obs.value % 2 = 1)
          /\ mem.speed = obs.speed
    /\ obs.op = "stop" =>
          /\ ~mem.panicked
          /\ ~mem.speed_shift
          /\ mem.speed = IF obs.speed_shift
                         THEN (IF obs.speed = "Double" THEN "Regular" ELSE "Double")
                         ELSE obs.speed
    /\ obs.op = "read" =>
          /\ ~obs.result.panics
          /\ (obs.result.value \div 128 = 1) = (obs.speed = "Double")
          /\ (obs.result.value % 2 = 1) = obs.speed_shift

-----------------------------------------------------------------------------
(* CPU::update_emulator: one frame of the monolithic CPU.  The cartridge   *)
(* is filled with one opcode byte, so a run is the loop executing that     *)
(* byte over and over from 0x0100 until the frame's cycles are used up.    *)

\* timer::MAX_CYCLES
timer_MAX_CYCLES == 69905

\* the byte the ROM is filled with: NOP, HALT, LD A,d8 (its operand is the
\* same byte), STOP
LoopPrograms == {0, 118, 62, 16}

LoopObsInit(byte) ==
    [program |-> byte, current_cycles |-> 0, iterations |-> 0,
     timer_cycles |-> 0, gpu_cycles |-> 0, panicked |-> FALSE, done |-> FALSE]

InitLoop ==
    /\ InitCPUAt(<<0, 456>>)
    /\ gpu = GPU_new
    /\ intref = Interrupt_new
    /\ probe = ProbeIdle
    /\ timer = Timer_new
    /\ cart = CartAtRest
    /\ mem = MemAtRest
    /\ regs = RegsAtRest
    /\ \E byte \in LoopPrograms : obs = LoopObsInit(byte)

LoopFrame == UNCHANGED <<steps, probe, gpu, intref, timer, cart, mem, regs>>

\* `while current_cycles < timer::MAX_CYCLES`
LoopRuns ==
    ~obs.done /\ ~obs.panicked /\ obs.current_cycles < timer_MAX_CYCLES

\* `let cycles: u8 = self.execute_instruction(); current_cycles += cycles`
LoopExecute ==
    /\ phase = "execute"
    /\ LoopRuns
    /\ LET byte == obs.program
           r == CPU_execute_instruction(byte, FALSE, regs.f.zero, regs.f.carry,
                                        is_halted)
           kind == Instructions_from_byte(byte, FALSE)[1]
       IN IF r.panics
          THEN /\ obs' = [obs EXCEPT !.panicked = TRUE]
               /\ UNCHANGED <<pc, sp, ime, is_halted, reg_a, bus, phase, cycles, fetched>>
          ELSE /\ cycles' = r.cycles
               /\ obs' = [obs EXCEPT !.current_cycles = @ + r.cycles]
               /\ phase' = "timers"
               /\ fetched' = IF is_halted THEN "halted" ELSE kind
               /\ pc' = IF is_halted \/ kind = "HALT" THEN pc
                        ELSE IF kind = "LD" THEN (pc + 2) % 65536
                        ELSE (pc + 1) % 65536
               /\ is_halted' = (is_halted \/ kind = "HALT")
               /\ reg_a' = IF ~is_halted /\ kind = "LD" THEN byte ELSE reg_a
               /\ UNCHANGED <<sp, ime, bus>>
    /\ LoopFrame

\* `self.update_timers(cycles)`
LoopTimers ==
    /\ phase = "timers"
    /\ bus' = CPU_update_timers(bus, cycles)
    /\ obs' = [obs EXCEPT !.timer_cycles = @ + cycles]
    /\ phase' = "graphics"
    /\ UNCHANGED <<pc, sp, ime, is_halted, reg_a, cycles, fetched>>
    /\ LoopFrame

\* `self.update_graphics(cycles)`
LoopGraphics ==
    /\ phase = "graphics"
    /\ bus' = CPU_update_graphics(bus, cycles)
    /\ obs' = [obs EXCEPT !.gpu_cycles = @ + cycles]
    /\ phase' = "interrupts"
    /\ UNCHANGED <<pc, sp, ime, is_halted, reg_a, cycles, fetched>>
    /\ LoopFrame

\* `self.process_interrupts()`, the end of one iteration
LoopInterrupts ==
    /\ phase = "interrupts"
    /\ LET r == CPU_process_interrupts([pc |-> pc, sp |-> sp, ime |-> ime, bus |-> bus])
       IN /\ pc' = r.pc
          /\ sp' = r.sp
          /\ ime' = r.ime
          /\ bus' = r.bus
    /\ obs' = [obs EXCEPT !.iterations = @ + 1]
    /\ phase' = "execute"
    /\ UNCHANGED <<is_halted, reg_a, cycles, fetched>>
    /\ LoopFrame

\* the loop condition fails: update_emulator returns
LoopExit ==
    /\ phase = "execute"
    /\ ~obs.done /\ ~obs.panicked
    /\ obs.current_cycles >= timer_MAX_CYCLES
    /\ obs' = [obs EXCEPT !.done = TRUE]
    /\ UNCHANGED <<pc, sp, ime, is_halted, reg_a, bus, phase, cycles, fetched>>
    /\ LoopFrame

NextLoop == LoopExecute \/ LoopTimers \/ LoopGraphics \/ LoopInterrupts \/ LoopExit

SpecLoop == InitLoop /\ [][NextLoop]_vars

\* the most iterations a frame takes: every step costs at least 4 cycles
MostIterations == (timer_MAX_CYCLES + 3) \div 4

\* C22: in every iteration the step costs at least 4 cycles, the timer and
\* the PPU have been advanced by every step's cycles before the next fetch,
\* the frame's cycle count is the sum of the steps' costs, an iteration
\* starts only if fewer than 17,477 came before it, and the call runs to
\* completion: no step ends it early.
C22_FrameLoop ==
    /\ ~obs.panicked
    /\ phase # "execute" => cycles >= 4
    /\ phase = "execute" => /\ obs.timer_cycles = obs.current_cycles
                            /\ obs.gpu_cycles = obs.current_cycles
    /\ obs.current_cycles >= 4 * obs.iterations
    /\ (phase = "execute" /\ LoopRuns) => obs.iterations < MostIterations
    /\ obs.iterations <= MostIterations

-----------------------------------------------------------------------------
(* The CGB VRAM DMA registers 0xFF51 .. 0xFF55 (HDMA of gpu.rs) on the     *)
(* stand-alone bus, with the PPU ticking through H-blank between accesses. *)

MaxHdmaOps == 3

HdmaAddrs == 65361 .. 65365

\* values written: length 0 and 1 as GDMA and as HDMA, all bits set, and a
\* byte with low bits set for the address registers
HdmaValues == {0, 1, 128, 129, 255, 18}

HdmaObsInit ==
    [op |-> "init", ops |-> 0, address |-> 0, value |-> 0, result |-> Byte(0),
     before |-> HDMA_new, hblank |-> FALSE]

\* the cartridge program has switched the display on
InitHdma ==
    /\ InitCPUAt(<<0, 456>>)
    /\ gpu = GPU_write_registers(GPU_new, 65344, 145)
    /\ intref = Interrupt_new
    /\ probe = ProbeIdle
    /\ timer = Timer_new
    /\ cart = CartAtRest
    /\ mem = MMU_new
    /\ regs = RegsAtRest
    /\ obs = HdmaObsInit

HdmaFrame ==
    /\ UNCHANGED <<pc, sp, ime, is_halted, reg_a, bus, phase, cycles, steps, fetched, probe>>
    /\ UNCHANGED <<timer, cart, regs>>

\* MemoryBus::write_byte(address, value) for 0xFF51 .. 0xFF55
HdmaWrite ==
    /\ obs.ops < MaxHdmaOps
    /\ ~mem.panicked
    /\ \E address \in HdmaAddrs, value \in HdmaValues :
         /\ mem' = MemoryBus_write_byte(TheBus, address, value, 0).mem
         /\ obs' = [op |-> "write", ops |-> obs.ops + 1, address |-> address,
                    value |-> value, result |-> Byte(0), before |-> mem.hdma,
                    hblank |-> FALSE]
    /\ UNCHANGED <<gpu, intref>>
    /\ HdmaFrame

\* MemoryBus::read_byte(address) for 0xFF51 .. 0xFF55
HdmaRead ==
    /\ obs.ops < MaxHdmaOps
    /\ ~mem.panicked
    /\ \E address \in HdmaAddrs :
         LET r == MemoryBus_read_byte(TheBus, address)
         IN /\ mem' = [mem EXCEPT !.panicked = r.panics]
            /\ obs' = [op |-> "read", ops |-> obs.ops + 1, address |-> address,
                       value |-> 0, result |-> r, before |-> mem.hdma,
                       hblank |-> FALSE]
    /\ UNCHANGED <<gpu, intref>>
    /\ HdmaFrame

\* GPU::update_graphics(456): one scanline, which passes through H-blank.
\* It sets the hblank flag; the HDMA registers and VRAM are not its to touch
\* and no other code reads the flag.
HdmaScanline ==
    /\ obs.ops < MaxHdmaOps
    /\ ~mem.panicked
    /\ LET r == GPU_update_graphics(gpu, 456)
       IN /\ gpu' = r.gpu
          /\ intref' = Interrupt_after(intref, r.log)
          /\ obs' = [op |-> "scanline", ops |-> obs.ops + 1, address |-> 0,
                     value |-> 0, result |-> Byte(0), before |-> mem.hdma,
                     hblank |-> r.gpu.hblank]
    /\ UNCHANGED mem
    /\ HdmaFrame

NextHdma == HdmaWrite \/ HdmaRead \/ HdmaScanline

SpecHdma == InitHdma /\ [][NextHdma]_vars

\* the VRAM bytes dest .. dest + n - 1 hold what the bus reads at
\* source .. source + n - 1
Copied(source, dest, n) ==
    \A k \in 0 .. (n - 1) :
        Get(mem.vram, mem.vram_bank * 8192 + (dest + k - 32768))
            = MemoryBus_read_byte(TheBus, source + k).value

\* C31: a write to 0xFF55 with bit 7 clear while no HDMA is active copies
\* (length + 1) * 16 bytes to VRAM at once and ends inactive; with an
\* HDMA-mode transfer active, each H-blank copies 16 bytes and takes one off
\* the remaining-block count, the transfer ending inactive after the last.
C31_HdmaProgress ==
    /\ (obs.op = "write" /\ obs.address = 65365 /\ obs.value < 128
            /\ ~(obs.before.active /\ obs.before.mode = "HDMA")) =>
          /\ ~mem.hdma.active
          /\ Copied(obs.before.source, obs.before.destination,
                    (obs.value + 1) * 16)
    /\ (obs.op = "scanline" /\ obs.hblank
            /\ obs.before.active /\ obs.before.mode = "HDMA") =>
          /\ Copied(obs.before.source, obs.before.destination, 16)
          /\ IF obs.before.remain = 0
             THEN ~mem.hdma.active
             ELSE mem.hdma.remain = obs.before.remain - 1

\* C32: while an HDMA-mode transfer is active, a write to 0xFF55 with bit 7
\* clear makes it inactive and changes nothing else of the HDMA state; a
\* write to 0xFF55 while no HDMA-mode transfer is active starts a transfer
\* with remain = value & 0x7F and the mode bit 7 chooses.
C32_HdmaCancel ==
    (obs.op = "write" /\ obs.address = 65365) =>
        IF obs.before.active /\ obs.before.mode = "HDMA"
        THEN obs.value < 128 =>
                mem.hdma = [obs.before EXCEPT !.active = FALSE]
        ELSE mem.hdma = [obs.before EXCEPT
                            !.active = TRUE,
                            !.remain = obs.value % 128,
                            !.mode = IF obs.value >= 128 THEN "HDMA" ELSE "GDMA"]

\* an active HDMA-mode transfer was cancelled
C32_Witness ==
    /\ obs.op = "write" /\ obs.address = 65365 /\ obs.value < 128
    /\ obs.before.active /\ obs.before.mode = "HDMA" /\ obs.before.remain = 1
    /\ ~mem.hdma.active

\* C33: the HDMA source has its low 4 bits zero, the destination is a
\* multiple of 16 in 0x8000 .. 0x9FF0, and a read of 0xFF51 .. 0xFF54
\* returns the high or low byte of the source or of the destination.
C33_HdmaAddresses ==
    /\ mem.hdma.source % 16 = 0
    /\ mem.hdma.destination % 16 = 0
    /\ mem.hdma.destination \in 32768 .. 40944
    /\ (obs.op = "read" /\ obs.address \in 65361 .. 65364) =>
          obs.result = Byte(CASE obs.address = 65361 -> mem.hdma.source \div 256
                              [] obs.address = 65362 -> mem.hdma.source % 256
                              [] obs.address = 65363 -> mem.hdma.destination \div 256
                              [] obs.address = 65364 -> mem.hdma.destination % 256)

-----------------------------------------------------------------------------
(* The CGB palette registers BGPI/BGPD (0xFF68, 0xFF69) and OBPI/OBPD      *)
(* (0xFF6A, 0xFF6B) on the stand-alone bus.                                *)

MaxPalOps == 3

\* index registers and data registers
PalIndexRegs == {65384, 65386}
PalDataRegs == {65385, 65387}

\* values written to an index register: first and last index of the memory,
\* an odd and an even one, with and without auto-increment (bit 7), and a
\* byte with bit 6 set
PalIndexValues == {0, 1, 62, 63, 128, 191, 255}

\* values written to a data register
PalDataValues == {0, 31, 131, 224, 124, 255}

\* the index register and the palette memory behind a register's address
PalIndex(m, address) == IF address \in {65384, 65385} THEN m.bgpi ELSE m.obpi
PalData(m, address) == IF address \in {65384, 65385} THEN m.bgpd ELSE m.obpd

PalObsInit ==
    [op |-> "init", ops |-> 0, address |-> 0, value |-> 0, result |-> Byte(0),
     before |-> MMU_new, prev |-> [op |-> "init", address |-> 0, value |-> 0]]

InitPal ==
    /\ InitCPUAt(<<0, 456>>)
    /\ gpu = GPU_new
    /\ intref = Interrupt_new
    /\ probe = ProbeIdle
    /\ timer = Timer_new
    /\ cart = CartAtRest
    /\ mem = MMU_new
    /\ regs = RegsAtRest
    /\ obs = PalObsInit

PalFrame ==
    /\ UNCHANGED <<pc, sp, ime, is_halted, reg_a, bus, phase, cycles, steps, fetched, probe>>
    /\ UNCHANGED <<gpu, intref, timer, cart, regs>>

\* what obs keeps: the access, the memory it found, and the access before it
PalObs(op, address, value, result) ==
    [op |-> op, ops |-> obs.ops + 1, address |-> address, value |-> value,
     result |-> result, before |-> mem,
     prev |-> [op |-> obs.op, address |-> obs.address, value |-> obs.value]]

\* MemoryBus::write_byte(address, value) for 0xFF68 .. 0xFF6B
PalWrite ==
    /\ obs.ops < MaxPalOps
    /\ ~mem.panicked
    /\ \/ \E address \in PalIndexRegs, value \in PalIndexValues :
            /\ mem' = MemoryBus_write_byte(TheBus, address, value, 0).mem
            /\ obs' = PalObs("write", address, value, Byte(0))
       \/ \E address \in PalDataRegs, value \in PalDataValues :
            /\ mem' = MemoryBus_write_byte(TheBus, address, value, 0).mem
            /\ obs' = PalObs("write", address, value, Byte(0))
    /\ PalFrame

\* MemoryBus::read_byte(address) for 0xFF68 .. 0xFF6B
PalRead ==
    /\ obs.ops < MaxPalOps
    /\ ~mem.panicked
    /\ \E address \in PalIndexRegs \cup PalDataRegs :
         LET r == MemoryBus_read_byte(TheBus, address)
         IN /\ mem' = [mem EXCEPT !.panicked = r.panics]
            /\ obs' = PalObs("read", address, 0, r)
    /\ PalFrame

NextPal == PalWrite \/ PalRead

SpecPal == InitPal /\ [][NextPal]_vars

\* the three components of colour (index / 2) mod 4 of palette index / 8,
\* as positions in the palette memory
PalCells(i) ==
    LET rc == (i \div 8) * 12 + ((i \div 2) % 4) * 3 IN {rc, rc + 1, rc + 2}

\* the byte a data register returns for v written at index i
PalReadBack(i, v) == IF i % 2 = 0 THEN v ELSE v % 128

\* C34: BGPI/OBPI hold an index in 0 .. 63; a write to BGPD/OBPD changes
\* only the colour palette[index / 8][(index / 2) mod 4], then advances the
\* index by one modulo 64 keeping the auto-increment bit iff that bit is
\* set; with auto-increment clear, a read of the data register right after
\* a write of v returns v for a low byte and v & 0x7F for a high byte.
C34_PaletteIndex ==
    /\ mem.bgpi.index \in 0 .. 63
    /\ mem.obpi.index \in 0 .. 63
    /\ (obs.op = "write" /\ obs.address \in PalDataRegs) =>
          LET p == PalIndex(obs.before, obs.address)
              q == PalIndex(mem, obs.address)
              old == PalData(obs.before, obs.address)
              new == PalData(mem, obs.address)
          IN /\ \A j \in (0 .. 95) \ PalCells(p.index) : Get(new, j) = Get(old, j)
             /\ \A j \in DOMAIN new : j \in 0 .. 95
             /\ Gpd_read(new, p.index) = PalReadBack(p.index, obs.value)
             /\ q.auto_increment = p.auto_increment
             /\ q.index = IF p.auto_increment THEN (p.index + 1) % 64 ELSE p.index
    /\ (obs.op = "read" /\ obs.address \in PalDataRegs
            /\ obs.prev.op = "write" /\ obs.prev.address = obs.address
            /\ ~PalIndex(obs.before, obs.address).auto_increment) =>
          obs.result = Byte(PalReadBack(PalIndex(obs.before, obs.address).index,
                                        obs.prev.value))

\* 0xFF was written to the high byte of the last colour and read back as
\* 0x7F, auto-increment clear
C34_Witness ==
    /\ obs.op = "read" /\ obs.address = 65385
    /\ obs.prev.op = "write" /\ obs.prev.address = 65385 /\ obs.prev.value = 255
    /\ mem.bgpi = [index |-> 63, auto_increment |-> FALSE]
    /\ obs.result = Byte(127)

-----------------------------------------------------------------------------
(* WRAM banking on the stand-alone bus: SVBK (0xFF70), the fixed bank at   *)
(* 0xC000, the switchable bank at 0xD000 and its echo at 0xF000.           *)

MaxWramOps == 4

\* the first and last byte of the fixed bank, of the switchable bank and of
\* its echo, and SVBK
WramBusAddrs == {49152, 53248, 57343, 61440, 65023}

\* values written to SVBK: every bank, 0, and a byte with high bits set
SvbkValues == {0, 1, 2, 7, 250}

\* data bytes written
WramValues == {17, 34}

WramObsInit ==
    [op |-> "init", ops |-> 0, address |-> 0, value |-> 0, result |-> Byte(0),
     bank |-> 1, shadow |-> <<>>]

InitWram ==
    /\ InitCPUAt(<<0, 456>>)
    /\ gpu = GPU_new
    /\ intref = Interrupt_new
    /\ probe = ProbeIdle
    /\ timer = Timer_new
    /\ cart = CartAtRest
    /\ mem = MMU_new
    /\ regs = RegsAtRest
    /\ obs = WramObsInit

WramFrame ==
    /\ UNCHANGED <<pc, sp, ime, is_halted, reg_a, bus, phase, cycles, steps, fetched, probe>>
    /\ UNCHANGED <<gpu, intref, timer, cart, regs>>

\* the cell of banked WRAM an address names while bank n is selected: the
\* bank (0 for the fixed one) and the offset in it
WramCell(address, n) ==
    CASE address \in 49152 .. 53247 -> <<0, address - 49152>>
      [] address \in 53248 .. 57343 -> <<n, address - 53248>>
      [] address \in 57344 .. 61439 -> <<0, address - 57344>>
      [] address \in 61440 .. 65023 -> <<n, address - 61440>>

\* MemoryBus::write_byte(0xFF70, v)
WramSelect ==
    /\ obs.ops < MaxWramOps
    /\ ~mem.panicked
    /\ \E v \in SvbkValues :
         /\ mem' = MemoryBus_write_byte(TheBus, 65392, v, 0).mem
         /\ obs' = [obs EXCEPT !.op = "select", !.ops = @ + 1, !.address = 65392,
                               !.value = v, !.bank = mem.wram_bank]
    /\ WramFrame

\* MemoryBus::write_byte(address, value) into WRAM; obs.shadow keeps, cell
\* by cell of a banked WRAM, the byte last written
WramWrite ==
    /\ obs.ops < MaxWramOps
    /\ ~mem.panicked
    /\ \E address \in WramBusAddrs, value \in WramValues :
         /\ mem' = MemoryBus_write_byte(TheBus, address, value, 0).mem
         /\ obs' = [obs EXCEPT !.op = "write", !.ops = @ + 1, !.address = address,
                               !.value = value, !.bank = mem.wram_bank,
                               !.shadow = (WramCell(address, mem.wram_bank) :> value) @@ @]
    /\ WramFrame

\* MemoryBus::read_byte(address) from WRAM
WramRead ==
    /\ obs.ops < MaxWramOps
    /\ ~mem.panicked
    /\ \E address \in WramBusAddrs :
         LET r == MemoryBus_read_byte(TheBus, address)
         IN /\ mem' = [mem EXCEPT !.panicked = r.panics]
            /\ obs' = [obs EXCEPT !.op = "read", !.ops = @ + 1, !.address = address,
                                  !.value = 0, !.bank = mem.wram_bank, !.result = r]
    /\ WramFrame

NextWram == WramSelect \/ WramWrite \/ WramRead

SpecWram == InitWram /\ [][NextWram]_vars

\* C35: a write of v to 0xFF70 selects bank v & 7 with 0 mapped to 1, so
\* the bank is in 1 .. 7; every read and write of WRAM succeeds, and a read
\* returns the byte last written to the cell of the selected bank it names
\* (0 if none was), whatever was written to the same offset of other banks
\* or of the fixed bank.
C35_WramBanking ==
    /\ mem.wram_bank \in 1 .. 7
    /\ obs.op = "select" =>
          mem.wram_bank = IF obs.value % 8 = 0 THEN 1 ELSE obs.value % 8
    /\ ~mem.panicked
    /\ obs.op = "read" =>
          obs.result = Byte(Get(obs.shadow, WramCell(obs.address, obs.bank)))

-----------------------------------------------------------------------------
(* TAC (0xFF07) on the stand-alone bus and the TIMA count of the           *)
(* stand-alone timer from its reset state.                                 *)

MaxTacOps == 3

\* cycle counts handed to update_timers
TacTicks == {4, 12, 16, 1024}

\* the period a clock select stands for
TacPeriod(select) ==
    CASE select = 0 -> 1024 [] select = 1 -> 16 [] select = 2 -> 64 [] select = 3 -> 256

\* obs: the access, the timer it found, and for the run so far the cycles
\* ticked (n) and the TIMA increments seen (incs) since TAC was written;
\* fresh says that TAC was written at most once, before any tick
TacObsInit ==
    [op |-> "init", ops |-> 0, value |-> 0, result |-> Byte(0),
     before |-> Timer_new, flag |-> 0, n |-> 0, incs |-> 0,
     writes |-> 0, fresh |-> TRUE]

InitTac ==
    /\ InitCPUAt(<<0, 456>>)
    /\ gpu = GPU_new
    /\ intref = Interrupt_new
    /\ probe = ProbeIdle
    /\ timer = Timer_new
    /\ cart = CartAtRest
    /\ mem = MMU_new
    /\ regs = RegsAtRest
    /\ obs = TacObsInit

TacFrame ==
    /\ UNCHANGED <<pc, sp, ime, is_halted, reg_a, bus, phase, cycles, steps, fetched, probe>>
    /\ UNCHANGED <<gpu, cart, mem, regs>>

\* MemoryBus::write_byte(0xFF07, v), every byte v
TacWrite ==
    /\ obs.ops < MaxTacOps
    /\ \E v \in 0 .. 255 :
         /\ timer' = MemoryBus_write_byte(TheBus, 65287, v, 0).timer
         /\ obs' = [obs EXCEPT !.op = "write", !.ops = @ + 1, !.value = v,
                               !.before = timer, !.flag = intref.interrupt_flag,
                               !.writes = @ + 1,
                               !.fresh = (obs.fresh /\ obs.writes = 0 /\ obs.n = 0)]
    /\ UNCHANGED intref
    /\ TacFrame

\* MemoryBus::read_byte(0xFF07)
TacRead ==
    /\ obs.ops < MaxTacOps
    /\ obs' = [obs EXCEPT !.op = "read", !.ops = @ + 1,
                          !.before = timer, !.flag = intref.interrupt_flag,
                          !.result = MemoryBus_read_byte(TheBus, 65287)]
    /\ UNCHANGED <<timer, intref>>
    /\ TacFrame

\* Timer::update_timers(c)
TacTick ==
    /\ obs.ops < MaxTacOps
    /\ \E c \in TacTicks :
         LET r == Timer_update_timers(timer, c)
         IN /\ timer' = r.timer
            /\ intref' = Interrupt_after_timer(intref, r.requests)
            /\ obs' = [obs EXCEPT !.op = "tick", !.ops = @ + 1,
                                  !.before = timer, !.flag = intref.interrupt_flag,
                                  !.n = @ + c,
                                  !.incs = @ + ((r.timer.tima - timer.tima) % 256)]
    /\ TacFrame

NextTac == TacWrite \/ TacRead \/ TacTick

SpecTac == InitTac /\ [][NextTac]_vars

\* C36: after write_byte(0xFF07, v) the timer is enabled iff bit 2 of v is
\* set and its period is the one v & 3 selects, and read_byte(0xFF07)
\* returns v & 0x07.
C36_TacRoundTrip ==
    /\ obs.op = "write" =>
          /\ timer.clock_enabled = ((obs.value \div 4) % 2 = 1)
          /\ timer.input_clock_speed = TacPeriod(obs.value % 4)
    /\ (obs.op = "read" /\ obs.writes > 0) =>
          obs.result = Byte(obs.value % 8)

\* C37: from the reset state, once the timer was enabled with period P and
\* N cycles were ticked, TIMA was incremented floor(N / P) times; a tick
\* with the enable bit clear changes neither TIMA nor its accumulator and
\* requests no Timer interrupt.
C37_TimaWholePeriods ==
    /\ (obs.op = "tick" /\ obs.fresh /\ obs.writes = 1 /\ timer.clock_enabled) =>
          obs.incs = obs.n \div timer.input_clock_speed
    /\ (obs.op = "tick" /\ ~obs.before.clock_enabled) =>
          /\ timer.tima = obs.before.tima
          /\ timer.clock_counter = obs.before.clock_counter
          /\ intref.interrupt_flag = obs.flag

-----------------------------------------------------------------------------
(* 16-bit INC and DEC, ADD SP,r8 and LD HL,SP+r8 of the monolithic CPU     *)
(* (src/src/system/cpu.rs).  An instruction takes the register file r and  *)
(* the stack pointer s to an outcome [regs, sp, panics, length, cycles];   *)
(* wraps tells whether the build's arithmetic wraps (release) or panics on *)
(* overflow (debug).                                                       *)

WordOutcome(r, s, length, c) ==
    [regs |-> r, sp |-> s, panics |-> FALSE, length |-> length, cycles |-> c]

WordPanic(r, s) ==
    [regs |-> r, sp |-> s, panics |-> TRUE, length |-> 0, cycles |-> 0]

\* Instructions::LD(LoadType::Word(target, LoadWordSource::D16))
CPU_instruction_ld_word_d16(r, s, target, source_value) ==
    CASE target = "BC" -> WordOutcome(Registers_set_bc(r, source_value), s, 3, 12)
      [] target = "DE" -> WordOutcome(Registers_set_de(r, source_value), s, 3, 12)
      [] target = "SP" -> WordOutcome(r, source_value, 3, 12)
      [] target = "HL" -> WordOutcome(Registers_set_hl(r, source_value), s, 3, 12)

\* Instructions::INC(target), the arms of the four 16-bit targets
CPU_instruction_inc(r, s, target) ==
    CASE target = "HL" ->
           WordOutcome(Registers_set_hl(r, (Registers_get_hl(r) + 1) % 65536), s, 1, 8)
      [] target = "BC" ->
           WordOutcome(Registers_set_bc(r, (Registers_get_bc(r) + 1) % 65536), s, 1, 8)
      [] target = "DE" ->
           WordOutcome(Registers_set_de(r, (Registers_get_de(r) + 1) % 65536), s, 1, 8)
      [] target = "SP" -> WordOutcome(r, (s + 1) % 65536, 1, 8)

\* the statement self.regs.set_hl(self.regs.get_hl() - 1)
CPU_dec_hl(r, s, wraps) ==
    IF Registers_get_hl(r) = 0 /\ ~wraps
    THEN WordPanic(r, s)
    ELSE WordOutcome(Registers_set_hl(r, (Registers_get_hl(r) - 1) % 65536), s, 1, 8)

\* Instructions::DEC(target), the arms of the four 16-bit targets
CPU_instruction_dec(r, s, target, wraps) ==
    CASE target = "HL" -> CPU_dec_hl(r, s, wraps)
      [] target = "BC" -> CPU_dec_hl(r, s, wraps)
      [] target = "DE" -> CPU_dec_hl(r, s, wraps)
      [] target = "SP" -> CPU_dec_hl(r, s, wraps)

\* Instructions::ADD(target, ArithmeticSource::I8): ADD SP,r8, source_value
\* the byte read_next_byte returns
CPU_instruction_add_sp(r, s, source_value) ==
    LET new_value == s + source_value
        f == [zero |-> (new_value = 0),
              subtract |-> FALSE,
              carry |-> (new_value > 65535),
              half_carry |-> ((s % 16) + (source_value % 16) > 15)]
    IN WordOutcome([r EXCEPT !.f = f], new_value % 65536, 2, 16)

\* Instructions::LD(LoadType::Word(LoadWordTarget::HL, LoadWordSource::SPr8)),
\* source_value the byte read_next_byte returns
CPU_instruction_ld_hl_spr8(r, s, source_value) ==
    WordOutcome(Registers_set_hl(r, (s + source_value) % 65536), s, 2, 12)

\* instructions after the loads of one run
MaxWordOps == 1
\* LD rr,d16 instructions of one run
MaxWordLoads == 2

\* immediate words: zero, one, a full low nibble, a full low byte, the top
WordValues == {0, 1, 15, 255, 65528, 65535}

WordTargets == {"BC", "DE", "HL", "SP"}

WordObsInit ==
    [op |-> "init", ops |-> 0, loads |-> 0, target |-> "none", r8 |-> 0,
     panics |-> FALSE, before |-> [regs |-> Registers_initial, sp |-> 65534]]

InitWord ==
    /\ InitCPUAt(<<0, 456>>)
    /\ gpu = GPU_new
    /\ intref = Interrupt_new
    /\ probe = ProbeIdle
    /\ timer = Timer_new
    /\ cart = CartAtRest
    /\ mem = MemAtRest
    /\ regs = RegsAtRest
    /\ obs = WordObsInit

\* the variables after an instruction left outcome o
WordStep(o) ==
    /\ reg_a' = o.regs.a
    /\ regs' = RegistersBesidesA(o.regs)
    /\ sp' = o.sp
    /\ pc' = IF o.panics THEN pc ELSE (pc + o.length) % 65536
    /\ cycles' = IF o.panics THEN cycles ELSE o.cycles
    /\ UNCHANGED <<ime, is_halted, bus, phase, steps, fetched, probe>>
    /\ UNCHANGED <<gpu, intref, timer, cart, mem>>

WordObs(op, target, r8, o) ==
    [op |-> op, ops |-> obs.ops + 1, loads |-> obs.loads, target |-> target,
     r8 |-> r8, panics |-> o.panics,
     before |-> [regs |-> TheRegs, sp |-> sp]]

\* LD rr,d16
WordLoad ==
    /\ obs.ops = 0
    /\ obs.loads < MaxWordLoads
    /\ \E target \in WordTargets, value \in WordValues :
         /\ WordStep(CPU_instruction_ld_word_d16(TheRegs, sp, target, value))
         /\ obs' = [obs EXCEPT !.op = "LD", !.loads = @ + 1]

\* INC rr
WordInc ==
    /\ obs.ops < MaxWordOps
    /\ ~obs.panics
    /\ \E target \in WordTargets :
         LET o == CPU_instruction_inc(TheRegs, sp, target)
         IN WordStep(o) /\ obs' = WordObs("INC", target, 0, o)

\* DEC rr
WordDec ==
    /\ obs.ops < MaxWordOps
    /\ ~obs.panics
    /\ \E target \in WordTargets, wraps \in BOOLEAN :
         LET o == CPU_instruction_dec(TheRegs, sp, target, wraps)
         IN WordStep(o) /\ obs' = WordObs("DEC", target, 0, o)

\* ADD SP,r8 with any operand byte
WordAddSp ==
    /\ obs.ops < MaxWordOps
    /\ ~obs.panics
    /\ \E r8 \in 0 .. 255 :
         LET o == CPU_instruction_add_sp(TheRegs, sp, r8)
         IN WordStep(o) /\ obs' = WordObs("ADD SP", "SP", r8, o)

\* LD HL,SP+r8 with any operand byte
WordLdHl ==
    /\ obs.ops < MaxWordOps
    /\ ~obs.panics
    /\ \E r8 \in 0 .. 255 :
         LET o == CPU_instruction_ld_hl_spr8(TheRegs, sp, r8)
         IN WordStep(o) /\ obs' = WordObs("LD HL", "HL", r8, o)

NextWord == WordLoad \/ WordInc \/ WordDec \/ WordAddSp \/ WordLdHl

SpecWord == InitWord /\ [][NextWord]_vars

\* the 16-bit register a target names
WordOf(r, s, target) ==
    IF target = "SP" THEN s ELSE Registers_get(r, target)

\* C38: INC rr and DEC rr, for rr any of BC, DE, HL and SP, never fail,
\* add or subtract 1 modulo 65536 to exactly the named register and leave
\* the other register pairs, SP unless named, A and the four flags as they
\* were.
C38_IncDecTarget ==
    obs.op \in {"INC", "DEC"} =>
        /\ ~obs.panics
        /\ \A t \in WordTargets :
             WordOf(TheRegs, sp, t) =
                 IF t # obs.target THEN WordOf(obs.before.regs, obs.before.sp, t)
                 ELSE IF obs.op = "INC"
                      THEN (WordOf(obs.before.regs, obs.before.sp, t) + 1) % 65536
                      ELSE (WordOf(obs.before.regs, obs.before.sp, t) - 1) % 65536
        /\ TheRegs.f = obs.before.regs.f
        /\ TheRegs.a = obs.before.regs.a

\* an operand byte read as a signed 8-bit number
SignExtended(r8) == IF r8 > 127 THEN r8 - 256 ELSE r8

\* C39: after ADD SP,r8 (result in SP) and LD HL,SP+r8 (result in HL), for
\* every SP and operand byte, the result is SP plus the sign-extended
\* operand modulo 65536, Z and N are clear, H is the carry out of bit 3 and
\* C the carry out of bit 7 of SP's low byte plus the unsigned operand, and
\* LD HL,SP+r8 leaves SP unchanged.
C39_SpPlusR8 ==
    obs.op \in {"ADD SP", "LD HL"} =>
        /\ ~obs.panics
        /\ WordOf(TheRegs, sp, obs.target)
               = (obs.before.sp + SignExtended(obs.r8)) % 65536
        /\ ~TheRegs.f.zero
        /\ ~TheRegs.f.subtract
        /\ TheRegs.f.half_carry = ((obs.before.sp % 16) + (obs.r8 % 16) > 15)
        /\ TheRegs.f.carry = ((obs.before.sp % 256) + (obs.r8 % 256) > 255)
        /\ (obs.op = "LD HL" => sp = obs.before.sp)

-----------------------------------------------------------------------------
(* The rotates of the monolithic CPU (src/src/system/cpu.rs): RLCA, RLA,   *)
(* RRCA, RRA and the CB-prefixed RL and RR on a register.  A rotate takes  *)
(* the register file r to the register file it leaves; u8 shifts drop the  *)
(* bits shifted out.                                                       *)

\* a register file with the byte register a source names replaced
CPU_store_source(r, source, new_value) ==
    CASE source = "A" -> [r EXCEPT !.a = new_value]
      [] source = "B" -> [r EXCEPT !.b = new_value]
      [] source = "H" -> [r EXCEPT !.h = new_value]

\* Instructions::RLCA()
CPU_instruction_rlca(r) ==
    LET old == IF BitAnd(r.a, 128) # 0 THEN 1 ELSE 0
    IN [r EXCEPT !.a = BitOr((r.a * 2) % 256, old),
                 !.f = [zero |-> FALSE, subtract |-> FALSE,
                        half_carry |-> FALSE, carry |-> (old # 0)]]

\* Instructions::RLA()
CPU_instruction_rla(r) ==
    LET flag_c == (BitAnd(r.a, 128) \div 128 = 1)
        result == ((r.a * 2) % 256) + (IF r.f.carry THEN 1 ELSE 0)
    IN [r EXCEPT !.a = result,
                 !.f = [zero |-> FALSE, subtract |-> FALSE,
                        half_carry |-> FALSE, carry |-> flag_c]]

\* Instructions::RL(source), source a register
CPU_instruction_rl(r, source) ==
    LET reg == CPU_source_value(r, source)
        flag_c == (BitAnd(reg, 128) \div 128 = 1)
        new_value == BitOr((reg * 2) % 256, IF r.f.carry THEN 1 ELSE 0)
    IN [CPU_store_source(r, source, new_value) EXCEPT
            !.f = [zero |-> (new_value = 0), subtract |-> FALSE,
                   half_carry |-> FALSE, carry |-> flag_c]]

\* Instructions::RRCA(): zero is assigned from the rotated A
CPU_instruction_rrca(r) ==
    LET carry == (BitAnd(r.a, 1) # 0)
        a == BitOr(r.a \div 2, (BitAnd(r.a, 1) * 128) % 256)
    IN [r EXCEPT !.a = a,
                 !.f = [zero |-> (a = 0), subtract |-> FALSE,
                        half_carry |-> FALSE, carry |-> carry]]

\* Instructions::RR(source), source a register: f.carry is assigned before
\* new_value reads it
CPU_instruction_rr(r, source) ==
    LET reg == CPU_source_value(r, source)
        carry == (BitAnd(reg, 1) # 0)
        new_value == BitOr(reg \div 2, ((IF carry THEN 1 ELSE 0) * 128) % 256)
    IN [CPU_store_source(r, source, new_value) EXCEPT
            !.f = [zero |-> (new_value = 0), subtract |-> FALSE,
                   half_carry |-> FALSE, carry |-> carry]]

\* Instructions::RRA(): new_value is (a >> 7) | (flag_c << 7)
CPU_instruction_rra(r) ==
    LET flag_c == IF r.f.carry THEN 1 ELSE 0
        carry == (BitAnd(r.a, 1) # 0)
        new_value == BitOr(r.a \div 128, (flag_c * 128) % 256)
    IN [r EXCEPT !.a = new_value,
                 !.f = [zero |-> FALSE, subtract |-> FALSE,
                        half_carry |-> FALSE, carry |-> carry]]

\* rotates executed by one run
MaxRotOps == 1

\* bytes in B: zero, only bit 0, only bit 7, a mixed pattern
RotSources == {0, 1, 128, 90}

RotObsInit ==
    [op |-> "init", ops |-> 0, source |-> "A", before |-> Registers_initial]

InitRot ==
    /\ InitCPUAt(<<0, 456>>)
    /\ gpu = GPU_new
    /\ intref = Interrupt_new
    /\ probe = ProbeIdle
    /\ timer = Timer_new
    /\ cart = CartAtRest
    /\ mem = MemAtRest
    /\ obs = RotObsInit
    /\ \E b \in RotSources, flags \in 0 .. 15 :
         regs = [RegsAtRest EXCEPT !.b = b,
                                   !.f = FlagsRegister_from_u8(flags * 16)]

\* the variables after a rotate of the given length and cycle count left
\* the register file r
RotStep(r, length, c) ==
    /\ reg_a' = r.a
    /\ regs' = RegistersBesidesA(r)
    /\ pc' = (pc + length) % 65536
    /\ cycles' = c
    /\ UNCHANGED <<sp, ime, is_halted, bus, phase, steps, fetched, probe>>
    /\ UNCHANGED <<gpu, intref, timer, cart, mem>>

RotObs(op, source) ==
    [op |-> op, ops |-> obs.ops + 1, source |-> source, before |-> TheRegs]

\* LD A,d8 (Instructions::LD(LoadType::Byte(A, D8))): any byte into A
RotLoadA ==
    /\ obs.op = "init"
    /\ \E a \in 0 .. 255 :
         /\ reg_a' = a
         /\ pc' = (pc + 2) % 65536
         /\ cycles' = 8
         /\ obs' = [obs EXCEPT !.op = "LD"]
    /\ UNCHANGED <<sp, ime, is_halted, bus, phase, steps, fetched, probe>>
    /\ UNCHANGED <<gpu, intref, timer, cart, mem, regs>>

RotRlca ==
    /\ obs.ops < MaxRotOps
    /\ RotStep(CPU_instruction_rlca(TheRegs), 1, 4)
    /\ obs' = RotObs("RLCA", "A")

RotRla ==
    /\ obs.ops < MaxRotOps
    /\ RotStep(CPU_instruction_rla(TheRegs), 1, 4)
    /\ obs' = RotObs("RLA", "A")

RotRrca ==
    /\ obs.ops < MaxRotOps
    /\ RotStep(CPU_instruction_rrca(TheRegs), 1, 4)
    /\ obs' = RotObs("RRCA", "A")

RotRra ==
    /\ obs.ops < MaxRotOps
    /\ RotStep(CPU_instruction_rra(TheRegs), 1, 4)
    /\ obs' = RotObs("RRA", "A")

\* RL r (CB-prefixed)
RotRl ==
    /\ obs.ops < MaxRotOps
    /\ \E source \in {"A", "B"} :
         /\ RotStep(CPU_instruction_rl(TheRegs, source), 2, 8)
         /\ obs' = RotObs("RL", source)

\* RR r (CB-prefixed)
RotRr ==
    /\ obs.ops < MaxRotOps
    /\ \E source \in {"A", "B"} :
         /\ RotStep(CPU_instruction_rr(TheRegs, source), 2, 8)
         /\ obs' = RotObs("RR", source)

NextRot == RotLoadA \/ RotRlca \/ RotRla \/ RotRrca \/ RotRra \/ RotRl \/ RotRr

SpecRot == InitRot /\ [][NextRot]_vars

\* the byte a rotate worked on, before and after, and the carry before it
RotBefore == CPU_source_value(obs.before, obs.source)
RotAfter == CPU_source_value(TheRegs, obs.source)
RotOldCarry == IF obs.before.f.carry THEN 1 ELSE 0

\* C40: RLCA, RLA, RRCA and RRA leave Z, N and H clear for every A and
\* carry flag, also when the result is 0; RLCA and RRCA rotate A by one bit
\* and C receives the bit rotated out; RLA, RRA, RL r and RR r rotate
\* through carry, the bit shifted in being the carry flag as it was before
\* the instruction and C receiving the bit shifted out; RL r and RR r set
\* Z exactly when the result is 0 and clear N and H.
C40_Rotates ==
    /\ obs.op \in {"RLCA", "RLA", "RRCA", "RRA", "RL", "RR"} =>
         /\ ~TheRegs.f.subtract
         /\ ~TheRegs.f.half_carry
    /\ obs.op \in {"RLCA", "RLA", "RRCA", "RRA"} => ~TheRegs.f.zero
    /\ obs.op \in {"RL", "RR"} => TheRegs.f.zero = (RotAfter = 0)
    /\ obs.op \in {"RLCA", "RLA", "RL"} => TheRegs.f.carry = (RotBefore >= 128)
    /\ obs.op \in {"RRCA", "RRA", "RR"} => TheRegs.f.carry = (RotBefore % 2 = 1)
    /\ obs.op = "RLCA" =>
         RotAfter = ((RotBefore * 2) % 256) + (RotBefore \div 128)
    /\ obs.op = "RRCA" =>
         RotAfter = (RotBefore \div 2) + ((RotBefore % 2) * 128)
    /\ obs.op \in {"RLA", "RL"} =>
         RotAfter = ((RotBefore * 2) % 256) + RotOldCarry
    /\ obs.op \in {"RRA", "RR"} =>
         RotAfter = (RotBefore \div 2) + (RotOldCarry * 128)

=============================================================================
